---- MODULE Spec2Model ----
(***************************************************************************)
(* State-machine model of the pdfshield renderer pages: EditPDF (pages of  *)
(* one document, position-keyed selection), MergePDF (files), ImagesToPDF  *)
(* (images), SplitPDF (page numbers), CompressPDF (quality), PDFToImages,  *)
(* ProtectPDF and UnlockPDF (passwords), with the documents they hand to   *)
(* the download link and the URLs they ask for.  One page component is     *)
(* mounted at a time                                                       *)
(* (react-router); its useState cells are the variables below.  Positions  *)
(* are 0-based as in the source; TLA+ sequences are 1-based, so            *)
(* pages[i + 1] is the page at position i.                                 *)
(***************************************************************************)
EXTENDS Integers, Sequences, FiniteSets, TLC

VARIABLES
  route,          \* the mounted page component
  loadedPDF,      \* EditPDF: Null or Some([arrayBuffer, pages |-> Seq(PageInfo)])
  selectedPages,  \* EditPDF: Set<number> of selected positions
  isProcessing,   \* isProcessing of the mounted page
  saveTask,       \* EditPDF: the loadedPDF captured by a handleSave in flight
  pendingLoads,   \* EditPDF: handleFilesAdded calls awaiting PDFDocument.load
  idSelected,     \* identity-keyed selection run side by side with EditPDF
  files,          \* MergePDF: PDFFile[]
  addTasks,       \* MergePDF: handleFilesAdded calls in flight
  mergeTask,      \* MergePDF: the files captured by a handleMerge in flight
  images,         \* ImagesToPDF: ImageFile[]
  createTask,     \* ImagesToPDF: the images captured by a handleCreate in flight
  nextId,         \* number of the next crypto.randomUUID() value
  dropped,        \* files handed to handleFilesAdded since the page mounted
  splitPDF,       \* SplitPDF: Null or Some([pages |-> number])
  splitSelected,  \* SplitPDF: Set<number> of page numbers, in insertion order
  splitTask,      \* SplitPDF: what a handleSplit in flight captured
  splitLoads,     \* SplitPDF: handleFilesAdded calls awaiting PDFDocument.load
  compressPDF,    \* CompressPDF: Null or Some([name |-> file])
  quality,        \* CompressPDF: 'high' | 'medium' | 'low'
  result,         \* CompressPDF: Null or Some(the size shown)
  compressTask,   \* CompressPDF: what a handleCompress in flight captured
  compressLoads,  \* CompressPDF: handleFilesAdded calls awaiting PDFDocument.load
  convertPDF,     \* PDFToImages: Null or Some([pages |-> number])
  format,         \* PDFToImages: 'png' | 'jpeg'
  resolution,     \* PDFToImages: 72 | 150 | 300
  convertTask,    \* PDFToImages: what a handleConvert in flight captured, and its i
  convertLoads,   \* PDFToImages: handleFilesAdded calls awaiting getDocument
  requests,       \* the URLs the application has asked the network or the system for
  protectPDF,     \* ProtectPDF: Null or Some([name |-> file])
  unlockPDF,      \* UnlockPDF: Null or Some([name |-> file, isEncrypted |-> boolean])
  password,       \* ProtectPDF, UnlockPDF: password of the mounted page
  confirmPassword,\* ProtectPDF: string
  error,          \* ProtectPDF, UnlockPDF: Null or Some(message key)
  success,        \* UnlockPDF: boolean
  lockTask,       \* what a handleProtect or handleUnlock in flight captured
  lockLoads,      \* ProtectPDF, UnlockPDF: handleFilesAdded calls awaiting their load
  raised,         \* error thrown by the last handler call, "none" if it returned
  downloaded      \* the file the step handed to the download link, Null if none

editVars == <<loadedPDF, selectedPages, saveTask, pendingLoads, idSelected>>
mergeVars == <<files, addTasks, mergeTask>>
imageVars == <<images, createTask>>
splitVars == <<splitPDF, splitSelected, splitTask, splitLoads>>
compressVars == <<compressPDF, quality, result, compressTask, compressLoads>>
convertVars == <<convertPDF, format, resolution, convertTask, convertLoads>>
lockVars == <<protectPDF, unlockPDF, password, confirmPassword, error, success, lockTask,
              lockLoads>>
vars == <<route, isProcessing, nextId, dropped, raised, downloaded, requests, editVars,
          mergeVars, imageVars, splitVars, compressVars, convertVars, lockVars>>

\* the state of the pages that are not mounted, seen from each page
offEdit == <<nextId, dropped, mergeVars, imageVars, splitVars, compressVars, convertVars,
          requests, lockVars>>
offMerge == <<editVars, imageVars, splitVars, compressVars, convertVars,
           requests, lockVars>>
offImages == <<editVars, mergeVars, splitVars, compressVars, convertVars,
            requests, lockVars>>
offSplit == <<nextId, dropped, editVars, mergeVars, imageVars, compressVars, convertVars,
           requests, lockVars>>
offCompress == <<nextId, dropped, editVars, mergeVars, imageVars, splitVars, convertVars,
                 requests, lockVars>>
offConvert == <<nextId, dropped, editVars, mergeVars, imageVars, splitVars, compressVars,
                lockVars>>
offLock == <<nextId, dropped, requests, editVars, mergeVars, imageVars, splitVars,
             compressVars, convertVars>>

\* ---------------------------------------------------------------- bounds
\* pages of a loaded document
MaxPages == 3
\* EditPDF handleFilesAdded calls in flight at once
MaxPendingLoads == 1
\* files handed to handleFilesAdded between two route changes
MaxFiles == 3

\* ------------------------------------------------------- generic helpers
Null == <<>>
Some(x) == <<x>>

Min(a, b) == IF a < b THEN a ELSE b
Max(a, b) == IF a > b THEN a ELSE b

\* the value JavaScript yields when destructuring an empty splice result
Undefined == [undefined |-> TRUE]

\* Array.prototype.splice: normalisation of the start argument
SpliceStart(len, start) ==
  IF start < 0 THEN Max(len + start, 0) ELSE Min(start, len)

\* array after splice(start, 1)
SpliceRemove(array, start) ==
  LET k == SpliceStart(Len(array), start)
  IN  IF k < Len(array)
      THEN SubSeq(array, 1, k) \o SubSeq(array, k + 2, Len(array))
      ELSE array

\* first element of the array returned by splice(start, 1)
SpliceRemoved(array, start) ==
  LET k == SpliceStart(Len(array), start)
  IN  IF k < Len(array) THEN array[k + 1] ELSE Undefined

\* array after splice(start, 0, item)
SpliceInsert(array, start, item) ==
  LET k == SpliceStart(Len(array), start)
  IN  SubSeq(array, 1, k) \o <<item>> \o SubSeq(array, k + 1, Len(array))

\* @dnd-kit/sortable arrayMove: the target index is computed on the copy
\* before the element is taken out of it
arrayMove(array, from, to) ==
  LET target == IF to < 0 THEN Len(array) + to ELSE to
  IN  SpliceInsert(SpliceRemove(array, from), target, SpliceRemoved(array, from))

\* Array.prototype.findIndex on the id field, -1 when absent
findIndex(array, id) ==
  IF \E k \in 1..Len(array) : array[k].id = id
  THEN (CHOOSE k \in 1..Len(array) :
          /\ array[k].id = id
          /\ \A j \in 1..(k - 1) : array[j].id # id) - 1
  ELSE -1

Ids(array) == {array[k].id : k \in 1..Len(array)}

\* a filter that reads the kept positions as counted from one
RECURSIVE FilterPosOneBased(_, _, _)
FilterPosOneBased(array, keep, k) ==
  IF k > Len(array) THEN <<>>
  ELSE (IF k \in keep THEN <<array[k]>> ELSE <<>>)
       \o FilterPosOneBased(array, keep, k + 1)

\* Array.prototype.filter by position
RECURSIVE FilterPos(_, _, _)
FilterPos(array, keep, k) ==
  IF k > Len(array) THEN <<>>
  ELSE (IF (k - 1) \in keep THEN <<array[k]>> ELSE <<>>)
       \o FilterPos(array, keep, k + 1)

\* ------------------------------------------------------------- EditPDF
Rotations == {0, 90, 180, 270}

\* id of the page at source index i: `page-${i}-${Date.now()}`, one
\* timestamp per loaded document, so ids differ exactly when i differs
PageId(i) == 10 + i

\* the PageInfo list built by handleFilesAdded for a document of pageCount
\* pages whose pages carry rotation rot[i]
LoadedPages(pageCount, rot) ==
  [k \in 1..pageCount |->
     [id |-> PageId(k - 1), pageIndex |-> k - 1, rotation |-> rot[k]]]

\* page.getRotation().angle of source page i in the documents that are loaded
SourceRotation(i) == (90 * i) % 360

pages == IF loadedPDF = Null THEN <<>> ELSE loadedPDF[1].pages

\* { ...prev, pages: newPages }
WithPages(newPages) == Some([loadedPDF[1] EXCEPT !.pages = newPages])

\* the ids of the pages at the selected positions (dangling positions have none)
SelectedIds ==
  {pages[i + 1].id : i \in {j \in selectedPages : 0 <= j /\ j < Len(pages)}}

\* a page component right after mounting under the route r
Mounted(r) ==
  /\ route = r
  /\ files = <<>>
  /\ addTasks = <<>>
  /\ mergeTask = Null
  /\ images = <<>>
  /\ createTask = Null
  /\ nextId = 1
  /\ dropped = 0
  /\ loadedPDF = Null
  /\ selectedPages = {}
  /\ isProcessing = FALSE
  /\ saveTask = Null
  /\ pendingLoads = 0
  /\ idSelected = {}
  /\ splitPDF = Null
  /\ splitSelected = <<>>
  /\ splitTask = Null
  /\ splitLoads = 0
  /\ compressPDF = Null
  /\ quality = "medium"
  /\ result = Null
  /\ compressTask = Null
  /\ compressLoads = 0
  /\ convertPDF = Null
  /\ format = "png"
  /\ resolution = 150
  /\ convertTask = Null
  /\ convertLoads = 0
  /\ requests = {}
  /\ protectPDF = Null
  /\ unlockPDF = Null
  /\ password = <<>>
  /\ confirmPassword = <<>>
  /\ error = Null
  /\ success = FALSE
  /\ lockTask = Null
  /\ lockLoads = 0
  /\ raised = "none"
  /\ downloaded = Null

\* "/" renders MergePDF
Init == Mounted("merge")

\* EditPDF.handleFilesAdded up to its first await; the drop zone is rendered
\* only while no document is loaded
EditFilesAdded ==
  /\ route = "edit"
  /\ loadedPDF = Null
  /\ pendingLoads < MaxPendingLoads
  /\ pendingLoads' = pendingLoads + 1
  /\ raised' = "none"
  /\ downloaded' = Null
  /\ UNCHANGED <<route, loadedPDF, selectedPages, isProcessing, saveTask, idSelected, offEdit>>

\* continuation of handleFilesAdded after PDFDocument.load resolved
EditLoadDone(pageCount, rot) ==
  /\ route = "edit"
  /\ pendingLoads > 0
  /\ pendingLoads' = pendingLoads - 1
  /\ loadedPDF' = Some([arrayBuffer |-> pageCount, pages |-> LoadedPages(pageCount, rot)])
  /\ selectedPages' = {}
  /\ idSelected' = {}
  /\ downloaded' = Null
  /\ UNCHANGED <<route, isProcessing, saveTask, raised, offEdit>>

\* continuation of handleFilesAdded when arrayBuffer() or load rejected
EditLoadFailed ==
  /\ route = "edit"
  /\ pendingLoads > 0
  /\ pendingLoads' = pendingLoads - 1
  /\ downloaded' = Null
  /\ UNCHANGED <<route, loadedPDF, selectedPages, isProcessing, saveTask,
                 idSelected, raised, offEdit>>

\* the index arithmetic with the upper end of the shifted range left out
DragRemapOffByOne(selectedIdx, oldIndex, newIndex) ==
  IF selectedIdx = oldIndex THEN newIndex
  ELSE IF oldIndex < newIndex
       THEN (IF selectedIdx > oldIndex /\ selectedIdx < newIndex
             THEN selectedIdx - 1 ELSE selectedIdx)
       ELSE (IF selectedIdx > newIndex /\ selectedIdx < oldIndex
             THEN selectedIdx + 1 ELSE selectedIdx)

\* the index arithmetic of handleDragEnd on one selected position
DragRemap(selectedIdx, oldIndex, newIndex) ==
  IF selectedIdx = oldIndex THEN newIndex
  ELSE IF oldIndex < newIndex
       THEN (IF selectedIdx > oldIndex /\ selectedIdx <= newIndex
             THEN selectedIdx - 1 ELSE selectedIdx)
       ELSE (IF selectedIdx >= newIndex /\ selectedIdx < oldIndex
             THEN selectedIdx + 1 ELSE selectedIdx)

EditDragEnd(activeId, overId) ==
  /\ route = "edit"
  /\ loadedPDF # Null
  /\ activeId # overId
  /\ LET oldIndex == findIndex(pages, activeId)
         newIndex == findIndex(pages, overId)
     IN  /\ loadedPDF' = WithPages(arrayMove(pages, oldIndex, newIndex))
         /\ selectedPages' =
              {DragRemap(selectedIdx, oldIndex, newIndex) : selectedIdx \in selectedPages}
  /\ raised' = "none"
  /\ downloaded' = Null
  /\ UNCHANGED <<route, isProcessing, saveTask, pendingLoads, idSelected, offEdit>>

togglePage(pageIndex) ==
  /\ route = "edit"
  /\ loadedPDF # Null
  /\ selectedPages' = IF pageIndex \in selectedPages
                      THEN selectedPages \ {pageIndex}
                      ELSE selectedPages \cup {pageIndex}
  /\ idSelected' = LET id == pages[pageIndex + 1].id
                   IN  IF id \in idSelected THEN idSelected \ {id}
                       ELSE idSelected \cup {id}
  /\ raised' = "none"
  /\ downloaded' = Null
  /\ UNCHANGED <<route, loadedPDF, isProcessing, saveTask, pendingLoads, offEdit>>

\* a selectAll that numbers the pages from one, as SplitPDF does
selectAllFromOne ==
  /\ route = "edit"
  /\ loadedPDF # Null
  /\ selectedPages' = {k : k \in 1..Len(pages)}
  /\ idSelected' = Ids(pages)
  /\ raised' = "none"
  /\ downloaded' = Null
  /\ UNCHANGED <<route, loadedPDF, isProcessing, saveTask, pendingLoads, offEdit>>

selectAll ==
  /\ route = "edit"
  /\ loadedPDF # Null
  /\ selectedPages' = {k - 1 : k \in 1..Len(pages)}
  /\ idSelected' = Ids(pages)
  /\ raised' = "none"
  /\ downloaded' = Null
  /\ UNCHANGED <<route, loadedPDF, isProcessing, saveTask, pendingLoads, offEdit>>

deselectAll ==
  /\ route = "edit"
  /\ loadedPDF # Null
  /\ selectedPages' = {}
  /\ idSelected' = {}
  /\ raised' = "none"
  /\ downloaded' = Null
  /\ UNCHANGED <<route, loadedPDF, isProcessing, saveTask, pendingLoads, offEdit>>

\* a rotation without the + 360, with the remainder as JavaScript takes it
RotateWithoutWrap(rotation, direction) ==
  LET sum == rotation + (IF direction = "left" THEN -90 ELSE 90)
  IN  IF sum < 0 THEN 0 - ((0 - sum) % 360) ELSE sum % 360

\* (rotation + rotationAmount + 360) % 360
Rotate(rotation, direction) ==
  (rotation + (IF direction = "left" THEN -90 ELSE 90) + 360) % 360

\* rotatePages returns early with nothing selected; otherwise it queues the
\* page update and then calls setPdfVersion, a name that is declared
\* nowhere: the call throws after the update is queued
rotatePages(direction) ==
  /\ route = "edit"
  /\ loadedPDF # Null
  /\ IF selectedPages = {}
     THEN /\ UNCHANGED loadedPDF
          /\ raised' = "none"
     ELSE /\ loadedPDF' = WithPages(
               [k \in 1..Len(pages) |->
                  IF (k - 1) \in selectedPages
                  THEN [pages[k] EXCEPT
                          !.rotation = Rotate(pages[k].rotation, direction)]
                  ELSE pages[k]])
          /\ raised' = "ReferenceError"
  /\ downloaded' = Null
  /\ UNCHANGED <<route, selectedPages, isProcessing, saveTask, pendingLoads, idSelected, offEdit>>

\* a delete that forgets setSelectedPages(new Set())
deleteSelectedPagesKeepsSelection ==
  /\ route = "edit"
  /\ loadedPDF # Null
  /\ selectedPages # {}
  /\ IF Cardinality(selectedPages) >= Len(pages)
     THEN UNCHANGED <<loadedPDF, selectedPages, idSelected>>
     ELSE /\ loadedPDF' = WithPages(
               FilterPos(pages, {k - 1 : k \in 1..Len(pages)} \ selectedPages, 1))
          /\ selectedPages' = selectedPages
          /\ idSelected' = idSelected \ SelectedIds
  /\ raised' = "none"
  /\ downloaded' = Null
  /\ UNCHANGED <<route, isProcessing, saveTask, pendingLoads, offEdit>>

\* a delete without the check against deleting every page
deleteSelectedPagesUnchecked ==
  /\ route = "edit"
  /\ loadedPDF # Null
  /\ selectedPages # {}
  /\ loadedPDF' = WithPages(
       FilterPos(pages, {k - 1 : k \in 1..Len(pages)} \ selectedPages, 1))
  /\ selectedPages' = {}
  /\ idSelected' = idSelected \ SelectedIds
  /\ raised' = "none"
  /\ downloaded' = Null
  /\ UNCHANGED <<route, isProcessing, saveTask, pendingLoads, offEdit>>

deleteSelectedPages ==
  /\ route = "edit"
  /\ loadedPDF # Null
  /\ selectedPages # {}
  /\ IF Cardinality(selectedPages) >= Len(pages)
     THEN UNCHANGED <<loadedPDF, selectedPages, idSelected>>
     ELSE /\ loadedPDF' = WithPages(
               FilterPos(pages, {k - 1 : k \in 1..Len(pages)} \ selectedPages, 1))
          /\ selectedPages' = {}
          /\ idSelected' = idSelected \ SelectedIds
  /\ raised' = "none"
  /\ downloaded' = Null
  /\ UNCHANGED <<route, isProcessing, saveTask, pendingLoads, offEdit>>

\* a swap of the two pages that leaves each rotation at its position
SwapLeavesRotation(array, i, j) ==
  [array EXCEPT ![i + 1] = [array[j + 1] EXCEPT !.rotation = array[i + 1].rotation],
                ![j + 1] = [array[i + 1] EXCEPT !.rotation = array[j + 1].rotation]]

\* array after swapping the elements at positions i and j
Swap(array, i, j) ==
  [array EXCEPT ![i + 1] = array[j + 1], ![j + 1] = array[i + 1]]

\* a selection update that moves the page's mark and leaves the neighbour's
MoveRemapForgetsNeighbour(i, index, delta) ==
  IF i = index THEN i + delta ELSE i

\* the selection update of movePageUp (delta = -1) and movePageDown (delta = 1)
MoveRemap(i, index, delta) ==
  IF i = index THEN i + delta
  ELSE IF i = index + delta THEN i - delta
  ELSE i

movePageUp(index) ==
  /\ route = "edit"
  /\ loadedPDF # Null
  /\ IF index = 0
     THEN UNCHANGED <<loadedPDF, selectedPages>>
     ELSE /\ loadedPDF' = WithPages(Swap(pages, index - 1, index))
          /\ selectedPages' = {MoveRemap(i, index, -1) : i \in selectedPages}
  /\ raised' = "none"
  /\ downloaded' = Null
  /\ UNCHANGED <<route, isProcessing, saveTask, pendingLoads, idSelected, offEdit>>

movePageDown(index) ==
  /\ route = "edit"
  /\ loadedPDF # Null
  /\ IF index >= Len(pages) - 1
     THEN UNCHANGED <<loadedPDF, selectedPages>>
     ELSE /\ loadedPDF' = WithPages(Swap(pages, index, index + 1))
          /\ selectedPages' = {MoveRemap(i, index, 1) : i \in selectedPages}
  /\ raised' = "none"
  /\ downloaded' = Null
  /\ UNCHANGED <<route, isProcessing, saveTask, pendingLoads, idSelected, offEdit>>

\* a save that turns the copied page by the tracked rotation
SavedPageTurnedFurther(pageInfo) ==
  LET currentRotation == SourceRotation(pageInfo.pageIndex)
      newRotation == pageInfo.rotation
  IN  [pageIndex |-> pageInfo.pageIndex,
       rotation |-> (currentRotation + newRotation) % 360]

\* the page newPdf gets for pageInfo: the source page copied, its rotation
\* set when it differs from the tracked one
SavedPage(pageInfo) ==
  LET currentRotation == SourceRotation(pageInfo.pageIndex)
      newRotation == pageInfo.rotation
  IN  [pageIndex |-> pageInfo.pageIndex,
       rotation |-> IF currentRotation # newRotation THEN newRotation
                    ELSE currentRotation]

\* newPdf after the loop of handleSave over the captured loadedPDF.pages
SavedPages(captured) ==
  [k \in 1..Len(captured.pages) |-> SavedPage(captured.pages[k])]

\* handleSave up to its first await: the closure keeps the loadedPDF of the
\* render in which Save was clicked
handleSave ==
  /\ route = "edit"
  /\ loadedPDF # Null
  /\ isProcessing' = TRUE
  /\ saveTask' = Some(loadedPDF[1])
  /\ raised' = "none"
  /\ downloaded' = Null
  /\ UNCHANGED <<route, loadedPDF, selectedPages, pendingLoads, idSelected, offEdit>>

\* handleSave after the download: reset, then finally
EditSaveDone ==
  /\ route = "edit"
  /\ saveTask # Null
  /\ \A k \in 1..Len(saveTask[1].pages) :
       saveTask[1].pages[k].pageIndex < saveTask[1].arrayBuffer
  /\ loadedPDF' = Null
  /\ selectedPages' = {}
  /\ idSelected' = {}
  /\ isProcessing' = FALSE
  /\ saveTask' = Null
  /\ downloaded' = Some([name |-> "edited", pages |-> SavedPages(saveTask[1])])
  /\ UNCHANGED <<route, pendingLoads, raised, offEdit>>

\* a failure path that runs the reset of the success path
EditSaveFailedResets ==
  /\ route = "edit"
  /\ saveTask # Null
  /\ loadedPDF' = Null
  /\ selectedPages' = {}
  /\ idSelected' = {}
  /\ isProcessing' = FALSE
  /\ saveTask' = Null
  /\ downloaded' = Null
  /\ UNCHANGED <<route, pendingLoads, raised, offEdit>>

\* handleSave when a library call rejected: catch, then finally
EditSaveFailed ==
  /\ route = "edit"
  /\ saveTask # Null
  /\ isProcessing' = FALSE
  /\ saveTask' = Null
  /\ downloaded' = Null
  /\ UNCHANGED <<route, loadedPDF, selectedPages, pendingLoads, idSelected, raised, offEdit>>

EditClearAll ==
  /\ route = "edit"
  /\ loadedPDF # Null
  /\ loadedPDF' = Null
  /\ selectedPages' = {}
  /\ idSelected' = {}
  /\ raised' = "none"
  /\ downloaded' = Null
  /\ UNCHANGED <<route, isProcessing, saveTask, pendingLoads, offEdit>>

Positions == {k - 1 : k \in 1..Len(pages)}

\* ------------------------------------------------------------ MergePDF
\* the files a user can hand over: "a" and "b" are PDFs that load, "x" is
\* a file on which PDFDocument.load rejects
FileKinds == {"a", "b", "x"}
Loads(file) == file # "x"

\* getPageCount() of a loadable file
PageCount(file) == IF file = "a" THEN 2 ELSE IF file = "b" THEN 1 ELSE 0

\* the image files a user can hand over
ImageKinds == {"a", "b"}

RECURSIVE SeqsUpTo(_, _)
\* the sequences over S of length 0..n
SeqsUpTo(S, n) ==
  IF n <= 0 THEN {<<>>}
  ELSE LET shorter == SeqsUpTo(S, n - 1)
       IN  shorter \cup {Append(q, x) : q \in {r \in shorter : Len(r) = n - 1}, x \in S}

\* files the user still hands over before leaving the page
FilesLeft == MaxFiles - dropped

\* MergePDF.handleFilesAdded up to its first await
MergeFilesAdded(newFiles) ==
  /\ route = "merge"
  /\ Len(newFiles) <= FilesLeft
  /\ addTasks' = Append(addTasks,
       [newFiles |-> newFiles, done |-> 0, processedFiles |-> <<>>])
  /\ dropped' = dropped + Len(newFiles)
  /\ raised' = "none"
  /\ downloaded' = Null
  /\ UNCHANGED <<route, isProcessing, nextId, files, mergeTask, offMerge>>

\* a loop turn that hands out the same id again
MergeFileLoadedReusesId(t) ==
  /\ route = "merge"
  /\ addTasks[t].done < Len(addTasks[t].newFiles)
  /\ LET file == addTasks[t].newFiles[addTasks[t].done + 1]
     IN  addTasks' = [addTasks EXCEPT
           ![t].done = @ + 1,
           ![t].processedFiles =
              IF Loads(file)
              THEN Append(@, [id |-> nextId, name |-> file, pages |-> PageCount(file)])
              ELSE @]
  /\ downloaded' = Null
  /\ UNCHANGED <<route, isProcessing, nextId, dropped, raised, files, mergeTask, offMerge>>

\* one turn of the for loop of handleFilesAdded call t: the file loaded and
\* was pushed with a fresh id, or the rejection was caught and logged
MergeFileLoaded(t) ==
  /\ route = "merge"
  /\ addTasks[t].done < Len(addTasks[t].newFiles)
  /\ LET file == addTasks[t].newFiles[addTasks[t].done + 1]
     IN  /\ addTasks' = [addTasks EXCEPT
               ![t].done = @ + 1,
               ![t].processedFiles =
                  IF Loads(file)
                  THEN Append(@, [id |-> nextId, name |-> file, pages |-> PageCount(file)])
                  ELSE @]
         /\ nextId' = IF Loads(file) THEN nextId + 1 ELSE nextId
  /\ downloaded' = Null
  /\ UNCHANGED <<route, isProcessing, dropped, raised, files, mergeTask, offMerge>>

\* an add that appends nothing unless every file of the batch loaded
MergeFilesAppendedAllOrNothing(t) ==
  /\ route = "merge"
  /\ addTasks[t].done = Len(addTasks[t].newFiles)
  /\ files' = IF Len(addTasks[t].processedFiles) = Len(addTasks[t].newFiles)
              THEN files \o addTasks[t].processedFiles
              ELSE files
  /\ addTasks' = SubSeq(addTasks, 1, t - 1) \o SubSeq(addTasks, t + 1, Len(addTasks))
  /\ downloaded' = Null
  /\ UNCHANGED <<route, isProcessing, nextId, dropped, raised, mergeTask, offMerge>>

\* an add that, while another add is in flight, sets the list to its own
\* batch instead of appending to it
MergeFilesAppendedOverwrites(t) ==
  /\ route = "merge"
  /\ addTasks[t].done = Len(addTasks[t].newFiles)
  /\ files' = IF Len(addTasks) > 1 THEN addTasks[t].processedFiles
              ELSE files \o addTasks[t].processedFiles
  /\ addTasks' = SubSeq(addTasks, 1, t - 1) \o SubSeq(addTasks, t + 1, Len(addTasks))
  /\ downloaded' = Null
  /\ UNCHANGED <<route, isProcessing, nextId, dropped, raised, mergeTask, offMerge>>

\* setFiles((prev) => [...prev, ...processedFiles]) after the loop
MergeFilesAppended(t) ==
  /\ route = "merge"
  /\ addTasks[t].done = Len(addTasks[t].newFiles)
  /\ files' = files \o addTasks[t].processedFiles
  /\ addTasks' = SubSeq(addTasks, 1, t - 1) \o SubSeq(addTasks, t + 1, Len(addTasks))
  /\ downloaded' = Null
  /\ UNCHANGED <<route, isProcessing, nextId, dropped, raised, mergeTask, offMerge>>

MergeDragEnd(activeId, overId) ==
  /\ route = "merge"
  /\ activeId # overId
  /\ files' = arrayMove(files, findIndex(files, activeId), findIndex(files, overId))
  /\ raised' = "none"
  /\ downloaded' = Null
  /\ UNCHANGED <<route, isProcessing, nextId, dropped, addTasks, mergeTask, offMerge>>

removeFile(id) ==
  /\ route = "merge"
  /\ files' = FilterPos(files, {k - 1 : k \in {j \in 1..Len(files) : files[j].id # id}}, 1)
  /\ raised' = "none"
  /\ downloaded' = Null
  /\ UNCHANGED <<route, isProcessing, nextId, dropped, addTasks, mergeTask, offMerge>>

\* a move that corrects the target index for the element taken out
SpliceMoveAdjusted(list, fromIndex, toIndex) ==
  SpliceInsert(SpliceRemove(list, fromIndex),
               IF fromIndex < toIndex THEN toIndex - 1 ELSE toIndex,
               SpliceRemoved(list, fromIndex))

\* const [removed] = list.splice(fromIndex, 1); list.splice(toIndex, 0, removed)
SpliceMove(list, fromIndex, toIndex) ==
  SpliceInsert(SpliceRemove(list, fromIndex), toIndex, SpliceRemoved(list, fromIndex))

moveFile(fromIndex, toIndex) ==
  /\ route = "merge"
  /\ files' = IF toIndex < 0 \/ toIndex >= Len(files)
              THEN files
              ELSE SpliceMove(files, fromIndex, toIndex)
  /\ raised' = "none"
  /\ downloaded' = Null
  /\ UNCHANGED <<route, isProcessing, nextId, dropped, addTasks, mergeTask, offMerge>>

\* handleMerge up to its first await: the closure keeps the files of the
\* render in which Merge was clicked (the progress display is left out)
handleMerge ==
  /\ route = "merge"
  /\ IF Len(files) < 2
     THEN UNCHANGED <<isProcessing, mergeTask>>
     ELSE /\ isProcessing' = TRUE
          /\ mergeTask' = Some([files |-> files])
  /\ raised' = "none"
  /\ downloaded' = Null
  /\ UNCHANGED <<route, nextId, dropped, files, addTasks, offMerge>>

\* the pages copied from one file: copyPages(pdfDoc, pdfDoc.getPageIndices())
CopiedPages(file) ==
  [k \in 1..PageCount(file.name) |-> [file |-> file.name, pageIndex |-> k - 1]]

RECURSIVE MergedPagesLastFirst(_, _)
\* a merge that walks the files from the last to the first
MergedPagesLastFirst(list, i) ==
  IF i >= Len(list) THEN <<>>
  ELSE MergedPagesLastFirst(list, i + 1) \o CopiedPages(list[i + 1])

RECURSIVE MergedPages(_, _)
\* mergedPdf after the loop of handleMerge has got through list[i + 1 ..]
MergedPages(list, i) ==
  IF i >= Len(list) THEN <<>>
  ELSE CopiedPages(list[i + 1]) \o MergedPages(list, i + 1)

\* a MergeDone that takes the merged files off the list and keeps the rest
MergeDoneKeepsOtherFiles ==
  /\ route = "merge"
  /\ mergeTask # Null
  /\ files' = SelectSeq(files, LAMBDA f : f.id \notin Ids(mergeTask[1].files))
  /\ isProcessing' = FALSE
  /\ mergeTask' = Null
  /\ downloaded' = Some([name |-> "merged.pdf",
                         pages |-> MergedPages(mergeTask[1].files, 0)])
  /\ UNCHANGED <<route, nextId, dropped, raised, addTasks, offMerge>>

\* handleMerge after the loop: download, reset state, then finally
MergeDone ==
  /\ route = "merge"
  /\ mergeTask # Null
  /\ files' = <<>>
  /\ isProcessing' = FALSE
  /\ mergeTask' = Null
  /\ downloaded' = Some([name |-> "merged.pdf",
                         pages |-> MergedPages(mergeTask[1].files, 0)])
  /\ UNCHANGED <<route, nextId, dropped, raised, addTasks, offMerge>>

\* handleMerge when a library call rejected: catch, then finally
MergeFailed ==
  /\ route = "merge"
  /\ mergeTask # Null
  /\ isProcessing' = FALSE
  /\ mergeTask' = Null
  /\ downloaded' = Null
  /\ UNCHANGED <<route, nextId, dropped, raised, files, addTasks, offMerge>>

MergeClearAll ==
  /\ route = "merge"
  /\ files # <<>>
  /\ files' = <<>>
  /\ raised' = "none"
  /\ downloaded' = Null
  /\ UNCHANGED <<route, isProcessing, nextId, dropped, addTasks, mergeTask, offMerge>>

\* ---------------------------------------------------------- ImagesToPDF
\* ImagesToPDF.handleFilesAdded: it awaits nothing, so it runs to its
\* setImages in one step
ImagesFilesAdded(newFiles) ==
  /\ route = "images"
  /\ Len(newFiles) <= FilesLeft
  /\ images' = images \o
       [k \in 1..Len(newFiles) |-> [id |-> nextId + k - 1, name |-> newFiles[k]]]
  /\ nextId' = nextId + Len(newFiles)
  /\ dropped' = dropped + Len(newFiles)
  /\ raised' = "none"
  /\ downloaded' = Null
  /\ UNCHANGED <<route, isProcessing, createTask, offImages>>

ImagesDragEnd(activeId, overId) ==
  /\ route = "images"
  /\ activeId # overId
  /\ images' = arrayMove(images, findIndex(images, activeId), findIndex(images, overId))
  /\ raised' = "none"
  /\ downloaded' = Null
  /\ UNCHANGED <<route, isProcessing, nextId, dropped, createTask, offImages>>

removeImage(id) ==
  /\ route = "images"
  /\ images' = FilterPos(images, {k - 1 : k \in {j \in 1..Len(images) : images[j].id # id}}, 1)
  /\ raised' = "none"
  /\ downloaded' = Null
  /\ UNCHANGED <<route, isProcessing, nextId, dropped, createTask, offImages>>

moveImage(fromIndex, toIndex) ==
  /\ route = "images"
  /\ images' = SpliceMove(images, fromIndex, toIndex)
  /\ raised' = "none"
  /\ downloaded' = Null
  /\ UNCHANGED <<route, isProcessing, nextId, dropped, createTask, offImages>>

\* handleCreate up to its first await
handleCreate ==
  /\ route = "images"
  /\ IF Len(images) = 0
     THEN UNCHANGED <<isProcessing, createTask>>
     ELSE /\ isProcessing' = TRUE
          /\ createTask' = Some([images |-> images])
  /\ raised' = "none"
  /\ downloaded' = Null
  /\ UNCHANGED <<route, nextId, dropped, images, offImages>>

\* handleCreate after the download: cleanup, then finally
CreateDone ==
  /\ route = "images"
  /\ createTask # Null
  /\ images' = <<>>
  /\ isProcessing' = FALSE
  /\ createTask' = Null
  /\ downloaded' = Some([name |-> "images.pdf",
                         pages |-> [k \in 1..Len(createTask[1].images) |->
                                      [file |-> createTask[1].images[k].name]]])
  /\ UNCHANGED <<route, nextId, dropped, raised, offImages>>

\* handleCreate when a library call rejected: catch, then finally
CreateFailed ==
  /\ route = "images"
  /\ createTask # Null
  /\ isProcessing' = FALSE
  /\ createTask' = Null
  /\ downloaded' = Null
  /\ UNCHANGED <<route, nextId, dropped, raised, images, offImages>>

ImagesClearAll ==
  /\ route = "images"
  /\ images # <<>>
  /\ images' = <<>>
  /\ raised' = "none"
  /\ downloaded' = Null
  /\ UNCHANGED <<route, isProcessing, nextId, dropped, createTask, offImages>>

\* ------------------------------------------------------------ SplitPDF
\* a JavaScript Set as the sequence of its members in insertion order
SetHas(set, x) == \E k \in 1..Len(set) : set[k] = x
SetAdd(set, x) == IF SetHas(set, x) THEN set ELSE Append(set, x)
SetDelete(set, x) == SelectSeq(set, LAMBDA y : y # x)

\* SplitPDF.handleFilesAdded up to its first await; the drop zone is
\* rendered while no document is loaded
SplitFilesAdded ==
  /\ route = "split"
  /\ splitPDF = Null
  /\ splitLoads < MaxPendingLoads
  /\ splitLoads' = splitLoads + 1
  /\ raised' = "none"
  /\ downloaded' = Null
  /\ UNCHANGED <<route, isProcessing, splitPDF, splitSelected, splitTask, offSplit>>

\* continuation of handleFilesAdded after PDFDocument.load resolved
SplitLoadDone(pageCount) ==
  /\ route = "split"
  /\ splitLoads > 0
  /\ splitLoads' = splitLoads - 1
  /\ splitPDF' = Some([pages |-> pageCount])
  /\ splitSelected' = <<>>
  /\ downloaded' = Null
  /\ UNCHANGED <<route, isProcessing, raised, splitTask, offSplit>>

\* continuation of handleFilesAdded when arrayBuffer() or load rejected
SplitLoadFailed ==
  /\ route = "split"
  /\ splitLoads > 0
  /\ splitLoads' = splitLoads - 1
  /\ downloaded' = Null
  /\ UNCHANGED <<route, isProcessing, raised, splitPDF, splitSelected, splitTask, offSplit>>

SplitTogglePage(pageNumber) ==
  /\ route = "split"
  /\ splitSelected' = IF SetHas(splitSelected, pageNumber)
                      THEN SetDelete(splitSelected, pageNumber)
                      ELSE SetAdd(splitSelected, pageNumber)
  /\ raised' = "none"
  /\ downloaded' = Null
  /\ UNCHANGED <<route, isProcessing, splitPDF, splitTask, splitLoads, offSplit>>

SplitSelectAll ==
  /\ route = "split"
  /\ splitSelected' = IF splitPDF = Null THEN splitSelected
                      ELSE [i \in 1..splitPDF[1].pages |-> i]
  /\ raised' = "none"
  /\ downloaded' = Null
  /\ UNCHANGED <<route, isProcessing, splitPDF, splitTask, splitLoads, offSplit>>

SplitDeselectAll ==
  /\ route = "split"
  /\ splitSelected' = <<>>
  /\ raised' = "none"
  /\ downloaded' = Null
  /\ UNCHANGED <<route, isProcessing, splitPDF, splitTask, splitLoads, offSplit>>

\* handleSplit up to its first await: the closure keeps the loadedPDF and
\* the selectedPages of the render in which Split was clicked
handleSplit ==
  /\ route = "split"
  /\ IF splitPDF = Null \/ Len(splitSelected) = 0
     THEN UNCHANGED <<isProcessing, splitTask>>
     ELSE /\ isProcessing' = TRUE
          /\ splitTask' = Some([loadedPDF |-> splitPDF[1],
                                selectedPages |-> splitSelected])
  /\ raised' = "none"
  /\ downloaded' = Null
  /\ UNCHANGED <<route, splitPDF, splitSelected, splitLoads, offSplit>>

\* array with x put before the first element that is greater
InsertSorted(array, x) ==
  LET k == Cardinality({j \in 1..Len(array) : array[j] <= x})
  IN  SubSeq(array, 1, k) \o <<x>> \o SubSeq(array, k + 1, Len(array))

\* Array.from(selectedPages) left in insertion order
InsertionOrder(array) == array

RECURSIVE SortAscending(_)
\* Array.from(selectedPages).sort((a, b) => a - b)
SortAscending(array) ==
  IF array = <<>> THEN <<>>
  ELSE InsertSorted(SortAscending(Tail(array)), Head(array))

\* newPdf of handleSplit: the pages at pageIndices copied from the source
SplitPages(captured) ==
  LET sortedPages == SortAscending(captured.selectedPages)
      pageIndices == [k \in 1..Len(sortedPages) |-> sortedPages[k] - 1]
  IN  [k \in 1..Len(pageIndices) |-> [pageIndex |-> pageIndices[k]]]

\* handleSplit after the download: reset, then finally; copyPages rejects
\* an index outside the source document
SplitDone ==
  /\ route = "split"
  /\ splitTask # Null
  /\ \A k \in 1..Len(splitTask[1].selectedPages) :
       /\ splitTask[1].selectedPages[k] - 1 >= 0
       /\ splitTask[1].selectedPages[k] - 1 < splitTask[1].loadedPDF.pages
  /\ splitPDF' = Null
  /\ splitSelected' = <<>>
  /\ isProcessing' = FALSE
  /\ splitTask' = Null
  /\ downloaded' = Some([name |-> "split", pages |-> SplitPages(splitTask[1])])
  /\ UNCHANGED <<route, raised, splitLoads, offSplit>>

\* handleSplit when a library call rejected: catch, then finally
SplitFailed ==
  /\ route = "split"
  /\ splitTask # Null
  /\ isProcessing' = FALSE
  /\ splitTask' = Null
  /\ downloaded' = Null
  /\ UNCHANGED <<route, raised, splitPDF, splitSelected, splitLoads, offSplit>>

SplitClearAll ==
  /\ route = "split"
  /\ splitPDF # Null
  /\ splitPDF' = Null
  /\ splitSelected' = <<>>
  /\ raised' = "none"
  /\ downloaded' = Null
  /\ UNCHANGED <<route, isProcessing, splitTask, splitLoads, offSplit>>

\* --------------------------------------------------------- CompressPDF
Qualities == {"high", "medium", "low"}

\* the compressOptions object handleCompress fills in and never passes on
compressOptions(q) == IF q = "low" THEN [useObjectStreams |-> TRUE] ELSE << >>

\* save options that take useObjectStreams from compressOptions
SaveOptionsFromCompressOptions(q) ==
  [useObjectStreams |-> compressOptions(q) # << >>, addDefaultPage |-> FALSE]

\* the argument of pdfDoc.save
SaveOptions(q) ==
  [useObjectStreams |-> q # "high", addDefaultPage |-> FALSE]

\* CompressPDF.handleFilesAdded up to its first await
CompressFilesAdded ==
  /\ route = "compress"
  /\ compressPDF = Null
  /\ compressLoads < MaxPendingLoads
  /\ compressLoads' = compressLoads + 1
  /\ raised' = "none"
  /\ downloaded' = Null
  /\ UNCHANGED <<route, isProcessing, compressPDF, quality, result, compressTask,
                 offCompress>>

\* continuation of handleFilesAdded after PDFDocument.load resolved
CompressLoadDone ==
  /\ route = "compress"
  /\ compressLoads > 0
  /\ compressLoads' = compressLoads - 1
  /\ compressPDF' = Some([name |-> "a"])
  /\ result' = Null
  /\ downloaded' = Null
  /\ UNCHANGED <<route, isProcessing, raised, quality, compressTask, offCompress>>

\* continuation of handleFilesAdded when arrayBuffer() or load rejected
CompressLoadFailed ==
  /\ route = "compress"
  /\ compressLoads > 0
  /\ compressLoads' = compressLoads - 1
  /\ downloaded' = Null
  /\ UNCHANGED <<route, isProcessing, raised, compressPDF, quality, result,
                 compressTask, offCompress>>

setQuality(q) ==
  /\ route = "compress"
  /\ compressPDF # Null
  /\ quality' = q
  /\ raised' = "none"
  /\ downloaded' = Null
  /\ UNCHANGED <<route, isProcessing, compressPDF, result, compressTask,
                 compressLoads, offCompress>>

\* handleCompress up to its first await: the closure keeps the loadedPDF and
\* the quality of the render in which Compress was clicked
handleCompress ==
  /\ route = "compress"
  /\ compressPDF # Null
  /\ isProcessing' = TRUE
  /\ compressTask' = Some([loadedPDF |-> compressPDF[1], quality |-> quality])
  /\ raised' = "none"
  /\ downloaded' = Null
  /\ UNCHANGED <<route, compressPDF, quality, result, compressLoads, offCompress>>

\* handleCompress after the download, then finally: the document stays loaded
CompressDone ==
  /\ route = "compress"
  /\ compressTask # Null
  /\ result' = Some("newSize")
  /\ isProcessing' = FALSE
  /\ compressTask' = Null
  /\ downloaded' = Some([name |-> "compressed",
                         file |-> compressTask[1].loadedPDF.name,
                         options |-> SaveOptions(compressTask[1].quality)])
  /\ UNCHANGED <<route, raised, compressPDF, quality, compressLoads, offCompress>>

\* handleCompress when a library call rejected: catch, then finally
CompressFailed ==
  /\ route = "compress"
  /\ compressTask # Null
  /\ isProcessing' = FALSE
  /\ compressTask' = Null
  /\ downloaded' = Null
  /\ UNCHANGED <<route, raised, compressPDF, quality, result, compressLoads,
                 offCompress>>

CompressClearAll ==
  /\ route = "compress"
  /\ compressPDF # Null
  /\ compressPDF' = Null
  /\ result' = Null
  /\ raised' = "none"
  /\ downloaded' = Null
  /\ UNCHANGED <<route, isProcessing, quality, compressTask, compressLoads,
                 offCompress>>

\* --------------------------------------------------------- PDFToImages
\* The page component of pages/PDFToImages.tsx. App.tsx declares no route
\* to it; it is modelled as mounted on its own.
Formats == {"png", "jpeg"}
Resolutions == {72, 150, 300}

\* GlobalWorkerOptions.workerSrc as the module sets it when it is loaded
workerSrc == [url |-> "https://cdnjs.cloudflare.com/ajax/libs/pdf.js/pdf.worker.min.js",
              by |-> "pdfjsLib.getDocument", content |-> "none"]

\* the link of the donate dialog, handed to the system browser by the
\* window-open handler of the main process
patreon == [url |-> "http://patreon.com/Anjos604",
            by |-> "shell.openExternal", content |-> "none"]

\* PDFToImages.handleFilesAdded up to its first await
ConvertFilesAdded ==
  /\ route = "pdf-to-images"
  /\ convertPDF = Null
  /\ convertLoads < MaxPendingLoads
  /\ convertLoads' = convertLoads + 1
  /\ raised' = "none"
  /\ downloaded' = Null
  /\ UNCHANGED <<route, isProcessing, requests, convertPDF, format, resolution,
                 convertTask, offConvert>>

\* continuation of handleFilesAdded after getDocument resolved: pdf.js has
\* started its worker from workerSrc
ConvertLoadDone(numPages) ==
  /\ route = "pdf-to-images"
  /\ convertLoads > 0
  /\ convertLoads' = convertLoads - 1
  /\ requests' = requests \cup {workerSrc}
  /\ convertPDF' = Some([pages |-> numPages])
  /\ downloaded' = Null
  /\ UNCHANGED <<route, isProcessing, raised, format, resolution, convertTask,
                 offConvert>>

\* continuation of handleFilesAdded when getDocument rejected: the file is
\* no PDF, or the worker script could not be fetched
ConvertLoadFailed ==
  /\ route = "pdf-to-images"
  /\ convertLoads > 0
  /\ convertLoads' = convertLoads - 1
  /\ requests' = requests \cup {workerSrc}
  /\ downloaded' = Null
  /\ UNCHANGED <<route, isProcessing, raised, convertPDF, format, resolution,
                 convertTask, offConvert>>

setFormat(f) ==
  /\ route = "pdf-to-images"
  /\ convertPDF # Null
  /\ format' = f
  /\ raised' = "none"
  /\ downloaded' = Null
  /\ UNCHANGED <<route, isProcessing, requests, convertPDF, resolution, convertTask,
                 convertLoads, offConvert>>

setResolution(r) ==
  /\ route = "pdf-to-images"
  /\ convertPDF # Null
  /\ resolution' = r
  /\ raised' = "none"
  /\ downloaded' = Null
  /\ UNCHANGED <<route, isProcessing, requests, convertPDF, format, convertTask,
                 convertLoads, offConvert>>

\* handleConvert up to its first await: the closure keeps the loadedPDF,
\* the format and the resolution of the render in which Convert was clicked
handleConvert ==
  /\ route = "pdf-to-images"
  /\ convertPDF # Null
  /\ isProcessing' = TRUE
  /\ convertTask' = Some([loadedPDF |-> convertPDF[1], format |-> format,
                          resolution |-> resolution, i |-> 1])
  /\ raised' = "none"
  /\ downloaded' = Null
  /\ UNCHANGED <<route, requests, convertPDF, format, resolution, convertLoads,
                 offConvert>>

\* one turn of the loop of handleConvert: page i rendered and downloaded
ConvertPage ==
  /\ route = "pdf-to-images"
  /\ convertTask # Null
  /\ convertTask[1].i <= convertTask[1].loadedPDF.pages
  /\ requests' = requests \cup {workerSrc}
  /\ downloaded' = Some([name |-> "page", i |-> convertTask[1].i,
                         format |-> convertTask[1].format,
                         scale72 |-> convertTask[1].resolution])
  /\ convertTask' = Some([convertTask[1] EXCEPT !.i = @ + 1])
  /\ UNCHANGED <<route, isProcessing, raised, convertPDF, format, resolution,
                 convertLoads, offConvert>>

\* handleConvert after the loop: reset, then finally
ConvertDone ==
  /\ route = "pdf-to-images"
  /\ convertTask # Null
  /\ convertTask[1].i > convertTask[1].loadedPDF.pages
  /\ convertPDF' = Null
  /\ isProcessing' = FALSE
  /\ convertTask' = Null
  /\ downloaded' = Null
  /\ UNCHANGED <<route, requests, raised, format, resolution, convertLoads, offConvert>>

\* handleConvert when getDocument, getPage or render rejected: catch, finally
ConvertFailed ==
  /\ route = "pdf-to-images"
  /\ convertTask # Null
  /\ requests' = requests \cup {workerSrc}
  /\ isProcessing' = FALSE
  /\ convertTask' = Null
  /\ downloaded' = Null
  /\ UNCHANGED <<route, raised, convertPDF, format, resolution, convertLoads,
                 offConvert>>

ConvertClearAll ==
  /\ route = "pdf-to-images"
  /\ convertPDF # Null
  /\ convertPDF' = Null
  /\ raised' = "none"
  /\ downloaded' = Null
  /\ UNCHANGED <<route, isProcessing, requests, format, resolution, convertTask,
                 convertLoads, offConvert>>

\* the Patreon button of the donate dialog: window.open is denied by the
\* window-open handler, which passes the URL to shell.openExternal
PatreonClicked ==
  /\ requests' = requests \cup {patreon}
  /\ downloaded' = Null
  /\ UNCHANGED <<route, isProcessing, nextId, dropped, raised, editVars, mergeVars,
                 imageVars, splitVars, compressVars, convertVars, lockVars>>

\* ---------------------------------------------------------- ProtectPDF
\* The page components ProtectPDF (part_005) and UnlockPDF. App.tsx declares
\* no route to either; each is modelled as mounted on its own.
\* the strings typed into the password fields, as sequences of characters
Passwords == {<<>>, <<"a", "b", "c">>, <<"a", "b", "c", "d">>, <<"w", "x", "y", "z">>}
\* the files dropped on the two pages
DroppedPDFs == {"a", "b"}

\* ProtectPDF.handleFilesAdded up to its first await
ProtectFilesAdded ==
  /\ route = "protect"
  /\ protectPDF = Null
  /\ lockLoads < MaxPendingLoads
  /\ lockLoads' = lockLoads + 1
  /\ raised' = "none"
  /\ downloaded' = Null
  /\ UNCHANGED <<route, isProcessing, protectPDF, unlockPDF, password, confirmPassword,
                 error, success, lockTask, offLock>>

\* continuation of handleFilesAdded after PDFDocument.load resolved
ProtectLoadDone(file) ==
  /\ route = "protect"
  /\ lockLoads > 0
  /\ lockLoads' = lockLoads - 1
  /\ protectPDF' = Some([name |-> file])
  /\ error' = Null
  /\ downloaded' = Null
  /\ UNCHANGED <<route, isProcessing, raised, unlockPDF, password, confirmPassword,
                 success, lockTask, offLock>>

\* continuation of handleFilesAdded when arrayBuffer() or load rejected
ProtectLoadFailed ==
  /\ route = "protect"
  /\ lockLoads > 0
  /\ lockLoads' = lockLoads - 1
  /\ error' = Some("protect.errorLoading")
  /\ downloaded' = Null
  /\ UNCHANGED <<route, isProcessing, raised, protectPDF, unlockPDF, password,
                 confirmPassword, success, lockTask, offLock>>

setPassword(value) ==
  /\ route = "protect"
  /\ protectPDF # Null
  /\ password' = value
  /\ raised' = "none"
  /\ downloaded' = Null
  /\ UNCHANGED <<route, isProcessing, protectPDF, unlockPDF, confirmPassword, error,
                 success, lockTask, lockLoads, offLock>>

setConfirmPassword(value) ==
  /\ route = "protect"
  /\ protectPDF # Null
  /\ confirmPassword' = value
  /\ raised' = "none"
  /\ downloaded' = Null
  /\ UNCHANGED <<route, isProcessing, protectPDF, unlockPDF, password, error, success,
                 lockTask, lockLoads, offLock>>

\* handleProtect with the length of the password checked before the
\* comparison with confirmPassword
handleProtectLengthFirst ==
  /\ route = "protect"
  /\ IF protectPDF = Null \/ password = <<>>
     THEN UNCHANGED <<isProcessing, error, lockTask>>
     ELSE IF Len(password) < 4
     THEN /\ error' = Some("protect.passwordTooShort")
          /\ UNCHANGED <<isProcessing, lockTask>>
     ELSE IF password # confirmPassword
     THEN /\ error' = Some("protect.passwordMismatch")
          /\ UNCHANGED <<isProcessing, lockTask>>
     ELSE /\ isProcessing' = TRUE
          /\ error' = Null
          /\ lockTask' = Some([loadedPDF |-> protectPDF[1], password |-> password])
  /\ raised' = "none"
  /\ downloaded' = Null
  /\ UNCHANGED <<route, protectPDF, unlockPDF, password, confirmPassword, success,
                 lockLoads, offLock>>

\* handleProtect up to its first await: the early return, the two
\* rejections, and the start of the encryption with the loadedPDF and the
\* password of the render in which Protect was clicked
handleProtect ==
  /\ route = "protect"
  /\ IF protectPDF = Null \/ password = <<>>
     THEN UNCHANGED <<isProcessing, error, lockTask>>
     ELSE IF password # confirmPassword
     THEN /\ error' = Some("protect.passwordMismatch")
          /\ UNCHANGED <<isProcessing, lockTask>>
     ELSE IF Len(password) < 4
     THEN /\ error' = Some("protect.passwordTooShort")
          /\ UNCHANGED <<isProcessing, lockTask>>
     ELSE /\ isProcessing' = TRUE
          /\ error' = Null
          /\ lockTask' = Some([loadedPDF |-> protectPDF[1], password |-> password])
  /\ raised' = "none"
  /\ downloaded' = Null
  /\ UNCHANGED <<route, protectPDF, unlockPDF, password, confirmPassword, success,
                 lockLoads, offLock>>

\* handleProtect after the download: reset, then finally
ProtectDone ==
  /\ route = "protect"
  /\ lockTask # Null
  /\ protectPDF' = Null
  /\ password' = <<>>
  /\ confirmPassword' = <<>>
  /\ isProcessing' = FALSE
  /\ lockTask' = Null
  /\ downloaded' = Some([name |-> "protected", file |-> lockTask[1].loadedPDF.name,
                         userPassword |-> lockTask[1].password,
                         ownerPassword |-> lockTask[1].password])
  /\ UNCHANGED <<route, raised, unlockPDF, error, success, lockLoads, offLock>>

\* handleProtect's catch without the finally block
ProtectFailedStaysBusy ==
  /\ route = "protect"
  /\ lockTask # Null
  /\ error' = Some("protect.errorProtecting")
  /\ lockTask' = Null
  /\ downloaded' = Null
  /\ UNCHANGED <<route, isProcessing, raised, protectPDF, unlockPDF, password,
                 confirmPassword, success, lockLoads, offLock>>

\* handleProtect when load, encrypt or save threw: catch, then finally
ProtectFailed ==
  /\ route = "protect"
  /\ lockTask # Null
  /\ error' = Some("protect.errorProtecting")
  /\ isProcessing' = FALSE
  /\ lockTask' = Null
  /\ downloaded' = Null
  /\ UNCHANGED <<route, raised, protectPDF, unlockPDF, password, confirmPassword,
                 success, lockLoads, offLock>>

ProtectClearAll ==
  /\ route = "protect"
  /\ protectPDF # Null
  /\ protectPDF' = Null
  /\ password' = <<>>
  /\ confirmPassword' = <<>>
  /\ error' = Null
  /\ raised' = "none"
  /\ downloaded' = Null
  /\ UNCHANGED <<route, isProcessing, unlockPDF, success, lockTask, lockLoads, offLock>>

\* ------------------------------------------------------------ UnlockPDF
\* the password the encrypted documents that are loaded open with
DocumentPassword == <<"a", "b", "c", "d">>

\* UnlockPDF.handleFilesAdded up to its first await
UnlockFilesAdded ==
  /\ route = "unlock"
  /\ unlockPDF = Null
  /\ lockLoads < MaxPendingLoads
  /\ lockLoads' = lockLoads + 1
  /\ raised' = "none"
  /\ downloaded' = Null
  /\ UNCHANGED <<route, isProcessing, protectPDF, unlockPDF, password, confirmPassword,
                 error, success, lockTask, offLock>>

\* continuation of handleFilesAdded after arrayBuffer() resolved: the file
\* counts as encrypted when PDFDocument.load rejects it
UnlockLoadDone(file, isEncrypted) ==
  /\ route = "unlock"
  /\ lockLoads > 0
  /\ lockLoads' = lockLoads - 1
  /\ unlockPDF' = Some([name |-> file, isEncrypted |-> isEncrypted])
  /\ error' = Null
  /\ success' = FALSE
  /\ downloaded' = Null
  /\ UNCHANGED <<route, isProcessing, raised, protectPDF, password, confirmPassword,
                 lockTask, offLock>>

\* continuation of handleFilesAdded when arrayBuffer() rejected
UnlockLoadFailed ==
  /\ route = "unlock"
  /\ lockLoads > 0
  /\ lockLoads' = lockLoads - 1
  /\ error' = Some("unlock.errorLoading")
  /\ downloaded' = Null
  /\ UNCHANGED <<route, isProcessing, raised, protectPDF, unlockPDF, password,
                 confirmPassword, success, lockTask, offLock>>

\* the password field of UnlockPDF, rendered for an encrypted document
UnlockSetPassword(value) ==
  /\ route = "unlock"
  /\ unlockPDF # Null
  /\ unlockPDF[1].isEncrypted
  /\ password' = value
  /\ raised' = "none"
  /\ downloaded' = Null
  /\ UNCHANGED <<route, isProcessing, protectPDF, unlockPDF, confirmPassword, error,
                 success, lockTask, lockLoads, offLock>>

\* handleUnlock up to its first await: the closure keeps the loadedPDF and
\* the password of the render in which Unlock was clicked
handleUnlock ==
  /\ route = "unlock"
  /\ unlockPDF # Null
  /\ isProcessing' = TRUE
  /\ error' = Null
  /\ lockTask' = Some([loadedPDF |-> unlockPDF[1], password |-> password])
  /\ raised' = "none"
  /\ downloaded' = Null
  /\ UNCHANGED <<route, protectPDF, unlockPDF, password, confirmPassword, success,
                 lockLoads, offLock>>

\* handleUnlock after the download, then finally: PDFDocument.load opened
\* the document, with the password or, without one, ignoring the encryption
UnlockDone ==
  /\ route = "unlock"
  /\ lockTask # Null
  /\ \/ ~lockTask[1].loadedPDF.isEncrypted
     \/ lockTask[1].password = <<>>
     \/ lockTask[1].password = DocumentPassword
  /\ success' = TRUE
  /\ isProcessing' = FALSE
  /\ lockTask' = Null
  /\ downloaded' = Some([name |-> "unlocked", file |-> lockTask[1].loadedPDF.name])
  /\ UNCHANGED <<route, raised, protectPDF, unlockPDF, password, confirmPassword,
                 error, lockLoads, offLock>>

\* handleUnlock when load or save rejected: catch, then finally
UnlockFailed ==
  /\ route = "unlock"
  /\ lockTask # Null
  /\ error' = IF lockTask[1].password # <<>> THEN Some("unlock.wrongPassword")
              ELSE Some("unlock.passwordRequired")
  /\ isProcessing' = FALSE
  /\ lockTask' = Null
  /\ downloaded' = Null
  /\ UNCHANGED <<route, raised, protectPDF, unlockPDF, password, confirmPassword,
                 success, lockLoads, offLock>>

UnlockClearAll ==
  /\ route = "unlock"
  /\ unlockPDF # Null
  /\ unlockPDF' = Null
  /\ password' = <<>>
  /\ error' = Null
  /\ success' = FALSE
  /\ raised' = "none"
  /\ downloaded' = Null
  /\ UNCHANGED <<route, isProcessing, protectPDF, confirmPassword, lockTask, lockLoads,
                 offLock>>

\* ------------------------------------------------------------ the routes
Routes == {"merge", "split", "edit", "compress", "images"}

\* a route change unmounts the page element and mounts another: the new
\* component starts from its initial state, and what the calls of the old
\* one still set is dropped
Navigate(r) ==
  /\ r # route
  /\ route' = r
  /\ files' = <<>>
  /\ addTasks' = <<>>
  /\ mergeTask' = Null
  /\ images' = <<>>
  /\ createTask' = Null
  /\ nextId' = 1
  /\ dropped' = 0
  /\ loadedPDF' = Null
  /\ selectedPages' = {}
  /\ isProcessing' = FALSE
  /\ saveTask' = Null
  /\ pendingLoads' = 0
  /\ idSelected' = {}
  /\ splitPDF' = Null
  /\ splitSelected' = <<>>
  /\ splitTask' = Null
  /\ splitLoads' = 0
  /\ compressPDF' = Null
  /\ quality' = "medium"
  /\ result' = Null
  /\ compressTask' = Null
  /\ compressLoads' = 0
  /\ convertPDF' = Null
  /\ format' = "png"
  /\ resolution' = 150
  /\ convertTask' = Null
  /\ convertLoads' = 0
  /\ requests' = requests
  /\ protectPDF' = Null
  /\ unlockPDF' = Null
  /\ password' = <<>>
  /\ confirmPassword' = <<>>
  /\ error' = Null
  /\ success' = FALSE
  /\ lockTask' = Null
  /\ lockLoads' = 0
  /\ raised' = "none"
  /\ downloaded' = Null

\* --------------------------------------------------- what the user can do
\* the controls the pages render, and whether they are enabled
\* a Save button that stays enabled while a save is running
SaveButtonAlwaysEnabled == loadedPDF # Null

SaveButtonEnabled == loadedPDF # Null /\ ~isProcessing
MergeButtonEnabled == ~(Len(files) < 2 \/ isProcessing)
CreateButtonEnabled == ~(Len(images) = 0 \/ isProcessing)
SplitButtonEnabled == ~(Len(splitSelected) = 0 \/ isProcessing)
CompressButtonEnabled == ~isProcessing
RotateButtonsEnabled == ~(Cardinality(selectedPages) = 0)

FilePositions == {k - 1 : k \in 1..Len(files)}
ImagePositions == {k - 1 : k \in 1..Len(images)}

\* the page list carries the rotations the document was loaded with
Unrotated(ps) ==
  \A k \in 1..Len(ps) : ps[k].rotation = SourceRotation(ps[k].pageIndex)

\* the pages are in the order in which the document was loaded
InLoadOrder(ps) ==
  \A k \in 1..(Len(ps) - 1) : ps[k].pageIndex < ps[k + 1].pageIndex

\* Exploration limits on the user, none of them in the handlers: Rotate is
\* pressed only while no save is in flight and the pages are in load order;
\* a document saved with changed rotations is left alone until its save
\* settles; a list is reordered only while no save, merge or create of it is
\* in flight, and the pages only while they carry their source rotations.
\* Items are added, removed, toggled and cleared while one is in flight.
UserRotates == saveTask = Null /\ InLoadOrder(pages)
UserEdits ==
  IF saveTask = Null THEN TRUE
  ELSE Unrotated(saveTask[1].pages) /\ Unrotated(pages)
UserReorders == saveTask = Null /\ Unrotated(pages)
UserReordersFiles == mergeTask = Null
UserReordersImages == createTask = Null

EditUser ==
  \/ EditFilesAdded
  \/ UserReorders /\ \E activeId \in Ids(pages), overId \in Ids(pages) :
       EditDragEnd(activeId, overId)
  \/ UserEdits /\ \E pageIndex \in Positions : togglePage(pageIndex)
  \/ UserEdits /\ selectAll
  \/ UserEdits /\ deselectAll
  \/ UserRotates /\ RotateButtonsEnabled /\
       \E direction \in {"left", "right"} : rotatePages(direction)
  \/ UserEdits /\ deleteSelectedPages
  \/ UserReorders /\ \E index \in Positions \ {0} : movePageUp(index)
  \/ UserReorders /\ \E index \in Positions \ {Len(pages) - 1} : movePageDown(index)
  \/ SaveButtonEnabled /\ handleSave
  \/ UserEdits /\ EditClearAll

EditSettles ==
  \/ \E pageCount \in 1..MaxPages :
       EditLoadDone(pageCount, [k \in 1..pageCount |-> SourceRotation(k - 1)])
  \/ EditLoadFailed
  \/ EditSaveDone
  \/ EditSaveFailed

MergeUser ==
  \/ \E newFiles \in SeqsUpTo(FileKinds, FilesLeft) \ {<<>>} : MergeFilesAdded(newFiles)
  \/ UserReordersFiles /\ \E activeId \in Ids(files), overId \in Ids(files) :
       MergeDragEnd(activeId, overId)
  \/ \E id \in Ids(files) : removeFile(id)
  \/ UserReordersFiles /\ \E index \in FilePositions \ {0} : moveFile(index, index - 1)
  \/ UserReordersFiles /\ \E index \in FilePositions \ {Len(files) - 1} :
       moveFile(index, index + 1)
  \/ MergeButtonEnabled /\ handleMerge
  \/ MergeClearAll

MergeSettles ==
  \/ \E t \in 1..Len(addTasks) : MergeFileLoaded(t)
  \/ \E t \in 1..Len(addTasks) : MergeFilesAppended(t)
  \/ MergeDone
  \/ MergeFailed

ImagesUser ==
  \/ \E newFiles \in SeqsUpTo(ImageKinds, FilesLeft) \ {<<>>} : ImagesFilesAdded(newFiles)
  \/ UserReordersImages /\ \E activeId \in Ids(images), overId \in Ids(images) :
       ImagesDragEnd(activeId, overId)
  \/ \E id \in Ids(images) : removeImage(id)
  \/ UserReordersImages /\ \E index \in ImagePositions \ {0} : moveImage(index, index - 1)
  \/ UserReordersImages /\ \E index \in ImagePositions \ {Len(images) - 1} :
       moveImage(index, index + 1)
  \/ CreateButtonEnabled /\ handleCreate
  \/ CreateDone
  \/ CreateFailed
  \/ ImagesClearAll

SplitPageNumbers == IF splitPDF = Null THEN {} ELSE 1..splitPDF[1].pages

SplitUser ==
  \/ SplitFilesAdded
  \/ \E pageNum \in SplitPageNumbers : SplitTogglePage(pageNum)
  \/ splitPDF # Null /\ SplitSelectAll
  \/ splitPDF # Null /\ SplitDeselectAll
  \/ SplitButtonEnabled /\ handleSplit
  \/ SplitClearAll

SplitSettles ==
  \/ \E pageCount \in 1..MaxPages : SplitLoadDone(pageCount)
  \/ SplitLoadFailed
  \/ SplitDone
  \/ SplitFailed

CompressUser ==
  \/ CompressFilesAdded
  \/ \E q \in Qualities : setQuality(q)
  \/ CompressButtonEnabled /\ handleCompress
  \/ CompressClearAll

CompressSettles ==
  \/ CompressLoadDone
  \/ CompressLoadFailed
  \/ CompressDone
  \/ CompressFailed

Next ==
  \/ EditUser
  \/ EditSettles
  \/ MergeUser
  \/ MergeSettles
  \/ ImagesUser
  \/ SplitUser
  \/ SplitSettles
  \/ CompressUser
  \/ CompressSettles
  \/ \E r \in Routes : Navigate(r)

Spec == Init /\ [][Next]_vars

\* ------------------------------------------------ handlers called directly
\* The handlers as functions, called with arguments the buttons and the
\* drag sensor of the pages do not produce: a move from the first position
\* up or from the last position down, a move between any two positions, and
\* ids that no item carries (the generator starts at 1, page ids at PageId(0)).
UnknownIds == {0}

BoundaryCalls ==
  \/ UserReorders /\ movePageUp(0)
  \/ UserReorders /\ movePageDown(Len(pages) - 1)
  \/ UserReordersFiles /\ files # <<>> /\ moveFile(0, -1)
  \/ UserReordersFiles /\ files # <<>> /\ moveFile(Len(files) - 1, Len(files))
  \/ UserReordersImages /\ images # <<>> /\ moveImage(0, -1)
  \/ UserReordersImages /\ images # <<>> /\ moveImage(Len(images) - 1, Len(images))

InRangeCalls ==
  \/ UserReordersFiles /\ \E fromIndex \in FilePositions, toIndex \in FilePositions :
       moveFile(fromIndex, toIndex)
  \/ UserReordersImages /\ \E fromIndex \in ImagePositions, toIndex \in ImagePositions :
       moveImage(fromIndex, toIndex)

UnknownIdCalls ==
  \/ files # <<>> /\ \E id \in UnknownIds : removeFile(id)
  \/ images # <<>> /\ \E id \in UnknownIds : removeImage(id)
  \/ UserReorders /\ \E id \in UnknownIds, other \in Ids(pages) :
       EditDragEnd(id, other) \/ EditDragEnd(other, id)
  \/ UserReordersFiles /\ \E id \in UnknownIds, other \in Ids(files) :
       MergeDragEnd(id, other) \/ MergeDragEnd(other, id)
  \/ UserReordersImages /\ \E id \in UnknownIds, other \in Ids(images) :
       ImagesDragEnd(id, other) \/ ImagesDragEnd(other, id)

\* handleMerge, handleSplit and rotatePages called although their button is
\* disabled for want of items
DisabledCalls ==
  \/ Len(files) < 2 /\ handleMerge
  \/ Len(splitSelected) = 0 /\ handleSplit
  \/ selectedPages = {} /\ \E direction \in {"left", "right"} : rotatePages(direction)

\* the pages in use, moves between any two positions of a list, and the
\* calls behind the disabled buttons
NextMoves ==
  \/ Next
  \/ InRangeCalls
  \/ DisabledCalls

SpecMoves == Init /\ [][NextMoves]_vars

\* the same, and the calls at the boundaries and with unknown ids
NextDirect ==
  \/ NextMoves
  \/ BoundaryCalls
  \/ UnknownIdCalls

SpecDirect == Init /\ [][NextDirect]_vars

\* ------------------------------------------- one document, edited freely
\* The edit page alone: a document is loaded, its pages are reordered,
\* rotated and deleted in any interleaving, and it is saved. Exploration
\* limits: the page stays mounted, the pages are edited while no save is in
\* flight, and Rotate is pressed on pages that carry their source rotations.
InitEdit == Mounted("edit")

NextEdit ==
  \/ EditFilesAdded
  \/ \E pageCount \in 1..MaxPages :
       EditLoadDone(pageCount, [k \in 1..pageCount |-> SourceRotation(k - 1)])
  \/ EditLoadFailed
  \/ saveTask = Null /\ \E activeId \in Ids(pages), overId \in Ids(pages) :
       EditDragEnd(activeId, overId)
  \/ saveTask = Null /\ \E index \in Positions \ {0} : movePageUp(index)
  \/ saveTask = Null /\ \E index \in Positions \ {Len(pages) - 1} : movePageDown(index)
  \/ saveTask = Null /\ \E pageIndex \in Positions : togglePage(pageIndex)
  \/ saveTask = Null /\ selectAll
  \/ saveTask = Null /\ deselectAll
  \/ saveTask = Null /\ Unrotated(pages) /\ RotateButtonsEnabled /\
       \E direction \in {"left", "right"} : rotatePages(direction)
  \/ saveTask = Null /\ deleteSelectedPages
  \/ SaveButtonEnabled /\ handleSave
  \/ EditSaveDone
  \/ EditSaveFailed
  \/ EditClearAll

SpecEdit == InitEdit /\ [][NextEdit]_vars

\* ------------------------------------------------ the PDFToImages page
ConvertButtonEnabled == ~isProcessing

InitConvert == Mounted("pdf-to-images")

NextConvert ==
  \/ ConvertFilesAdded
  \/ \E numPages \in 1..MaxPages : ConvertLoadDone(numPages)
  \/ ConvertLoadFailed
  \/ \E f \in Formats : setFormat(f)
  \/ \E r \in Resolutions : setResolution(r)
  \/ ConvertButtonEnabled /\ handleConvert
  \/ ConvertPage
  \/ ConvertDone
  \/ ConvertFailed
  \/ ConvertClearAll
  \/ PatreonClicked

SpecConvert == InitConvert /\ [][NextConvert]_vars

\* ------------------------------------- the ProtectPDF and UnlockPDF pages
\* const isValid = password.length >= 4 && password === confirmPassword
isValid == Len(password) >= 4 /\ password = confirmPassword

ProtectButtonEnabled == ~(~isValid \/ isProcessing)
UnlockButtonEnabled ==
  unlockPDF # Null /\ ~(isProcessing \/ (unlockPDF[1].isEncrypted /\ password = <<>>))

InitProtect == Mounted("protect")

\* the page as the user drives it, and handleProtect called behind its
\* disabled button while nothing is in flight
NextProtect ==
  \/ ProtectFilesAdded
  \/ \E file \in DroppedPDFs : ProtectLoadDone(file)
  \/ ProtectLoadFailed
  \/ \E value \in Passwords : setPassword(value)
  \/ \E value \in Passwords : setConfirmPassword(value)
  \/ ProtectButtonEnabled /\ handleProtect
  \/ ~isValid /\ ~isProcessing /\ handleProtect
  \/ ProtectDone
  \/ ProtectFailed
  \/ ProtectClearAll

SpecProtect == InitProtect /\ [][NextProtect]_vars

InitUnlock == Mounted("unlock")

NextUnlock ==
  \/ UnlockFilesAdded
  \/ \E file \in DroppedPDFs, isEncrypted \in BOOLEAN : UnlockLoadDone(file, isEncrypted)
  \/ UnlockLoadFailed
  \/ \E value \in Passwords : UnlockSetPassword(value)
  \/ UnlockButtonEnabled /\ handleUnlock
  \/ UnlockDone
  \/ UnlockFailed
  \/ UnlockClearAll

SpecUnlock == InitUnlock /\ [][NextUnlock]_vars

\* ------------------------------------------ every page, its awaits settling
InitBusy == Init \/ InitProtect \/ InitUnlock

\* what a user does to start a run on each page, what may be done while the
\* run is in flight, and the continuations; files are dropped one at a time
NextBusy ==
  \/ EditFilesAdded
  \/ EditSettles
  \/ SaveButtonEnabled /\ handleSave
  \/ EditClearAll
  \/ \E file \in FileKinds : MergeFilesAdded(<<file>>)
  \/ MergeSettles
  \/ \E id \in Ids(files) : removeFile(id)
  \/ MergeButtonEnabled /\ handleMerge
  \/ MergeClearAll
  \/ \E file \in ImageKinds : ImagesFilesAdded(<<file>>)
  \/ CreateButtonEnabled /\ handleCreate
  \/ CreateDone
  \/ CreateFailed
  \/ ImagesClearAll
  \/ SplitFilesAdded
  \/ SplitSettles
  \/ splitPDF # Null /\ SplitSelectAll
  \/ SplitButtonEnabled /\ handleSplit
  \/ SplitClearAll
  \/ CompressUser
  \/ CompressSettles
  \/ \E r \in Routes : Navigate(r)
  \/ NextProtect
  \/ NextUnlock

\* each awaited library call of a processing run eventually resolves or
\* rejects: the continuation of a run in flight is eventually taken
SpecBusy ==
  /\ InitBusy
  /\ [][NextBusy]_vars
  /\ WF_vars(MergeDone \/ MergeFailed)
  /\ WF_vars(EditSaveDone \/ EditSaveFailed)
  /\ WF_vars(SplitDone \/ SplitFailed)
  /\ WF_vars(CreateDone \/ CreateFailed)
  /\ WF_vars(CompressDone \/ CompressFailed)
  /\ WF_vars(ProtectDone \/ ProtectFailed)
  /\ WF_vars(UnlockDone \/ UnlockFailed)

\* ----------------------------------------------------------- properties

\* a step of one of the three page reorders of EditPDF
EditReorderStep ==
  \/ \E activeId \in Ids(pages), overId \in Ids(pages) : EditDragEnd(activeId, overId)
  \/ \E index \in Positions : movePageUp(index) \/ movePageDown(index)

\* C1: a reorder of the pages (drag-end, move up, move down) changes where
\* the pages are and never which pages are selected: the ids of the selected
\* pages are the same before and after, the remapped positions are all
\* positions of the list, and no two selected pages collapse into one.
C1_ReorderKeepsSelectedIds ==
  [][EditReorderStep =>
       /\ SelectedIds' = SelectedIds
       /\ selectedPages' \subseteq Positions'
       /\ Cardinality(selectedPages') = Cardinality(selectedPages)]_vars

\* pages X, Y, Z with Y and Z selected, after X was moved to the end
C1_Witness ==
  /\ Len(pages) = 3
  /\ pages[1].id = PageId(1)
  /\ pages[2].id = PageId(2)
  /\ pages[3].id = PageId(0)
  /\ selectedPages = {0, 1}

\* C2: every selected position is a position of the page list, and nothing
\* is selected while no document is loaded.
C2_SelectionInRange ==
  /\ selectedPages \subseteq Positions
  /\ loadedPDF = Null => selectedPages = {}

\* the first page of three was deleted and the new last page selected
C2_Witness ==
  /\ Len(pages) = 2
  /\ Ids(pages) = {PageId(1), PageId(2)}
  /\ selectedPages = {1}

\* C3: the position-keyed selection of EditPDF names the same pages as a
\* selection kept by page id (idSelected, updated by id on toggle, select
\* all, deselect all, delete and load, untouched by the reorders).
C3_PositionsRefineIds ==
  /\ SelectedIds = idSelected
  /\ Cardinality(selectedPages) = Cardinality(idSelected)

\* reordered pages, some of them selected and some not
C3_Witness ==
  /\ ~InLoadOrder(pages)
  /\ idSelected # {}
  /\ idSelected # Ids(pages)
  /\ selectedPages # {0}

\* C4: a move from the first position up or from the last position down
\* leaves the order and the selection as they are and raises no error, in
\* moveFile, movePageUp, movePageDown and moveImage alike.
C4_BoundaryMoveIsNoOp ==
  [][(\/ movePageUp(0)
      \/ movePageDown(Len(pages) - 1)
      \/ files # <<>> /\ (moveFile(0, -1) \/ moveFile(Len(files) - 1, Len(files)))
      \/ images # <<>> /\ (moveImage(0, -1) \/ moveImage(Len(images) - 1, Len(images))))
     => /\ UNCHANGED <<loadedPDF, selectedPages, files, images>>
        /\ raised' = "none"]_vars

\* s without the element at position p (counted from zero)
Without(s, p) ==
  [k \in 1..(Len(s) - 1) |-> IF k <= p THEN s[k] ELSE s[k + 1]]

\* new is old with the element at fromIndex taken out and put at toIndex
MovedTo(old, new, fromIndex, toIndex) ==
  /\ Len(new) = Len(old)
  /\ new[toIndex + 1] = old[fromIndex + 1]
  /\ Without(new, toIndex) = Without(old, fromIndex)

\* C5: moveFile and moveImage with both indices in range, and a drag-end
\* between two items of the list, take the item out and put it back at the
\* target position: the item ends at the target, the list keeps its length
\* and its items, and the other items keep their relative order.
C5_MoveIsRemoveAndReinsert ==
  [][/\ (route = "merge" /\ UNCHANGED <<addTasks, mergeTask>>) =>
          /\ \A fromIndex \in FilePositions, toIndex \in FilePositions :
               moveFile(fromIndex, toIndex) =>
                 MovedTo(files, files', fromIndex, toIndex)
          /\ \A activeId \in Ids(files), overId \in Ids(files) :
               MergeDragEnd(activeId, overId) =>
                 MovedTo(files, files',
                         findIndex(files, activeId), findIndex(files, overId))
     /\ (route = "images" /\ UNCHANGED <<nextId, dropped, createTask>>) =>
          /\ \A fromIndex \in ImagePositions, toIndex \in ImagePositions :
               moveImage(fromIndex, toIndex) =>
                 MovedTo(images, images', fromIndex, toIndex)
          /\ \A activeId \in Ids(images), overId \in Ids(images) :
               ImagesDragEnd(activeId, overId) =>
                 MovedTo(images, images',
                         findIndex(images, activeId), findIndex(images, overId))
     /\ (route = "edit" /\ UNCHANGED <<saveTask, pendingLoads, idSelected>>) =>
          \A activeId \in Ids(pages), overId \in Ids(pages) :
            EditDragEnd(activeId, overId) =>
              MovedTo(pages, pages',
                      findIndex(pages, activeId), findIndex(pages, overId))
    ]_vars

\* three files, the first of them moved to the end
C5_Witness ==
  /\ Len(files) = 3
  /\ files[1].id = 2
  /\ files[2].id = 3
  /\ files[3].id = 1

\* C6: deleteSelectedPages with some but not all pages selected removes
\* exactly the selected pages: the pages left are the unselected ones, in
\* the order they had, each unchanged, and the selection is empty afterwards.
C6_DeleteRemovesExactlySelected ==
  [][(deleteSelectedPages /\ Cardinality(selectedPages) < Len(pages)) =>
       /\ Ids(pages') = Ids(pages) \ SelectedIds
       /\ Len(pages') = Len(pages) - Cardinality(selectedPages)
       /\ \A k \in 1..Len(pages') : pages'[k] = pages[findIndex(pages, pages'[k].id) + 1]
       /\ \A j, k \in 1..Len(pages') :
            j < k => findIndex(pages, pages'[j].id) < findIndex(pages, pages'[k].id)
       /\ selectedPages' = {}]_vars

\* the middle page of three was deleted
C6_Witness ==
  /\ Len(pages) = 2
  /\ pages[1].id = PageId(0)
  /\ pages[2].id = PageId(2)
  /\ selectedPages = {}
  /\ idSelected = {}

\* C7: a handler called with an id that no item carries leaves the list and
\* the selection unchanged and signals NotFound.
C7_UnknownIdRejected ==
  [][(\E id \in UnknownIds :
        \/ files # <<>> /\ removeFile(id)
        \/ images # <<>> /\ removeImage(id)
        \/ \E other \in Ids(pages) : EditDragEnd(id, other) \/ EditDragEnd(other, id)
        \/ \E other \in Ids(files) : MergeDragEnd(id, other) \/ MergeDragEnd(other, id)
        \/ \E other \in Ids(images) : ImagesDragEnd(id, other) \/ ImagesDragEnd(other, id))
     => /\ UNCHANGED <<loadedPDF, selectedPages, files, images>>
        /\ raised' = "NotFound"]_vars

\* the names of the items of a list, in list order
Names(list) == [k \in 1..Len(list) |-> list[k].name]

\* the part of new that comes after the first Len(old) items
Appended(old, new) == SubSeq(new, Len(old) + 1, Len(new))

\* C8 as written: when a file of the batch failed to load, the add leaves
\* the merge list as it was.
C8_AddIsAllOrNothing ==
  [][\A t \in 1..Len(addTasks) :
       (/\ MergeFilesAppended(t)
        /\ \E k \in 1..Len(addTasks[t].newFiles) : ~Loads(addTasks[t].newFiles[k]))
       => files' = files]_vars

\* C8: an add skips the files of the batch that failed to load and appends
\* the ones that loaded: the list it finds is kept as a prefix and the
\* loaded files of the batch follow it, in batch order, whether or not
\* another file of the batch failed.
C8_AddSkipsFailedFiles ==
  [][\A t \in 1..Len(addTasks) :
       MergeFilesAppended(t) =>
         /\ Len(files') >= Len(files)
         /\ SubSeq(files', 1, Len(files)) = files
         /\ Names(Appended(files, files')) = SelectSeq(addTasks[t].newFiles, Loads)]_vars

\* a call whose loop is through, one file of its batch loaded and one not
C8_Witness ==
  \E t \in 1..Len(addTasks) :
    /\ addTasks[t].done = Len(addTasks[t].newFiles)
    /\ addTasks[t].processedFiles # <<>>
    /\ Len(addTasks[t].processedFiles) < Len(addTasks[t].newFiles)

\* C9 as written: between the invocation and the completion of a handler
\* no other operation takes effect: while a save, a merge, a create or an
\* add is in flight, the list and the selection it works on stay as they are.
C9_NothingChangesInFlight ==
  [][/\ (saveTask # Null /\ saveTask' # Null) => UNCHANGED <<loadedPDF, selectedPages>>
     /\ (mergeTask # Null /\ mergeTask' # Null) => UNCHANGED files
     /\ (createTask # Null /\ createTask' # Null) => UNCHANGED images
     /\ (addTasks # <<>> /\ Len(addTasks') >= Len(addTasks)) => UNCHANGED files
    ]_vars

\* C9: the synchronous handlers are single steps; the asynchronous ones are
\* not atomic, and what is excluded while a save, merge or create (or a
\* split or compress) is in flight is its second start: isProcessing is set
\* exactly while one is in flight, and the list it captured at its
\* invocation stays the one it works on, whatever happens to the list on the
\* page meanwhile.
C9_NoSecondStartInFlight ==
  /\ [](isProcessing <=> (\/ saveTask # Null
                          \/ mergeTask # Null
                          \/ createTask # Null
                          \/ splitTask # Null
                          \/ compressTask # Null))
  /\ [][/\ (saveTask # Null /\ saveTask' # Null) => saveTask' = saveTask
        /\ (mergeTask # Null /\ mergeTask' # Null) => mergeTask' = mergeTask
        /\ (createTask # Null /\ createTask' # Null) => createTask' = createTask
        /\ (splitTask # Null /\ splitTask' # Null) => splitTask' = splitTask
        /\ (compressTask # Null /\ compressTask' # Null) => compressTask' = compressTask
       ]_vars

\* a save in flight on a page list that has changed since Save was clicked
C9_Witness ==
  /\ saveTask # Null
  /\ loadedPDF # Null
  /\ isProcessing
  /\ saveTask[1].pages # pages

\* no two items of the list carry the same id
NoDuplicateIds(list) ==
  \A j, k \in 1..Len(list) : j # k => list[j].id # list[k].id

\* C10: every item added to the merge list or the image list carries an id
\* no item has carried before, the added items follow the items already
\* there in the order of their batch, and the items already there stay as
\* they are; so no list, together with the items loaded by the adds in
\* flight, ever holds two items with the same id.
C10_FreshIdsAppended ==
  /\ [](/\ NoDuplicateIds(files)
        /\ NoDuplicateIds(images)
        /\ \A k \in 1..Len(files) : files[k].id < nextId
        /\ \A k \in 1..Len(images) : images[k].id < nextId
        /\ \A t \in 1..Len(addTasks) :
             /\ NoDuplicateIds(files \o addTasks[t].processedFiles)
             /\ \A u \in 1..Len(addTasks) :
                  u # t => Ids(addTasks[t].processedFiles)
                             \cap Ids(addTasks[u].processedFiles) = {})
  /\ [][/\ \A t \in 1..Len(addTasks) :
             MergeFilesAppended(t) =>
               /\ SubSeq(files', 1, Len(files)) = files
               /\ Ids(Appended(files, files')) \cap Ids(files) = {}
               /\ Names(Appended(files, files')) =
                    SelectSeq(addTasks[t].newFiles, Loads)
        /\ \A newFiles \in SeqsUpTo(ImageKinds, FilesLeft) :
             ImagesFilesAdded(newFiles) =>
               /\ SubSeq(images', 1, Len(images)) = images
               /\ Names(Appended(images, images')) = newFiles
               /\ \A k \in 1..Len(newFiles) : images'[Len(images) + k].id >= nextId
       ]_vars

\* the same file added twice, as two items with two ids, followed by another
C10_Witness ==
  /\ Len(files) = 3
  /\ files[1].name = files[2].name
  /\ files[1].id # files[2].id
  /\ files[3].name # files[1].name

\* the page numbers selected on the split page
SplitSelection == {splitSelected[k] : k \in 1..Len(splitSelected)}

\* C11: selectAll selects every item there is (EditPDF: the positions
\* 0..pages.length-1, SplitPDF: the page numbers 1..pages, each once) and a
\* second selectAll changes nothing; deselectAll leaves the selection empty
\* whatever it was.
C11_SelectAllAndDeselectAll ==
  [][/\ selectAll =>
          /\ selectedPages' = 0..(Len(pages) - 1)
          /\ pages' = pages
          /\ (selectedPages = 0..(Len(pages) - 1) => selectedPages' = selectedPages)
     /\ deselectAll => selectedPages' = {}
     /\ (SplitSelectAll /\ splitPDF # Null) =>
          /\ SplitSelection' = 1..splitPDF[1].pages
          /\ Len(splitSelected') = splitPDF[1].pages
          /\ splitPDF' = splitPDF
          /\ (SplitSelection = 1..splitPDF[1].pages => SplitSelection' = SplitSelection)
     /\ SplitDeselectAll => splitSelected' = <<>>]_vars

\* a three-page document with every position selected, and a three-page
\* document on the split page with the page numbers 1, 2, 3 selected
C11_Witness ==
  \/ /\ route = "edit"
     /\ Len(pages) = 3
     /\ selectedPages = {0, 1, 2}
     /\ downloaded = Null
  \/ /\ route = "split"
     /\ splitPDF # Null
     /\ splitSelected = <<1, 2, 3>>

\* C12: the list does not outlive its workflow: the step that completes a
\* merge, a save or an images-to-PDF creation, and every clearAll step, ends
\* with the item list empty (EditPDF: no document loaded) and nothing
\* selected, whatever was added to the list while the operation ran.
C12_ListDiscardedOnCompletion ==
  [][/\ (MergeDone \/ MergeClearAll) => files' = <<>>
     /\ (CreateDone \/ ImagesClearAll) => images' = <<>>
     /\ (EditSaveDone \/ EditClearAll) =>
          /\ loadedPDF' = Null
          /\ pages' = <<>>
          /\ selectedPages' = {}]_vars

\* a merge of two files has just completed and handed over its output; a
\* third file that was added while it ran is gone from the list as well
C12_Witness ==
  /\ route = "merge"
  /\ downloaded # Null
  /\ Len(downloaded[1].pages) = 2
  /\ dropped = 3
  /\ addTasks = <<>>
  /\ files = <<>>
  /\ nextId = 4

RECURSIVE PagesOfFirst(_, _)
\* the number of pages in the first n files of a list
PagesOfFirst(list, n) ==
  IF n = 0 THEN 0 ELSE PagesOfFirst(list, n - 1) + PageCount(list[n].name)

\* C13: the merged document holds every page of every file that was on the
\* list when Merge was clicked, and nothing else: the files follow each other
\* in the order the list had at the click, the pages of each file in their
\* source order. With fewer than two files handleMerge starts no processing
\* and leaves the list as it is.
C13_MergeKeepsEveryPageInOrder ==
  [][/\ (handleMerge /\ Len(files) >= 2) =>
          /\ mergeTask' = Some([files |-> files])
          /\ isProcessing'
          /\ files' = files
     /\ (handleMerge /\ Len(files) < 2) =>
          /\ UNCHANGED <<files, isProcessing, mergeTask>>
          /\ downloaded' = Null
     /\ MergeDone =>
          LET list == mergeTask[1].files
              out == downloaded'[1].pages
          IN  /\ Len(out) = PagesOfFirst(list, Len(list))
              /\ \A f \in 1..Len(list) :
                   \A p \in 0..(PageCount(list[f].name) - 1) :
                     out[PagesOfFirst(list, f - 1) + p + 1] =
                       [file |-> list[f].name, pageIndex |-> p]]_vars

\* the output of merging the one-page file b followed by the two-page file a
C13_Witness ==
  /\ route = "merge"
  /\ downloaded # Null
  /\ downloaded[1].pages = << [file |-> "b", pageIndex |-> 0],
                              [file |-> "a", pageIndex |-> 0],
                              [file |-> "a", pageIndex |-> 1] >>

\* C14: split writes exactly the selected pages: every selected page number
\* once, in ascending page order whatever the order in which the pages were
\* toggled, and no other page. The selection never holds a number outside
\* 1..pages of the loaded document (and is empty while none is loaded), and
\* with nothing selected handleSplit starts nothing.
C14_SplitExtractsSelectedAscending ==
  /\ [](/\ SplitSelection \subseteq SplitPageNumbers
        /\ Cardinality(SplitSelection) = Len(splitSelected))
  /\ [][/\ (handleSplit /\ Len(splitSelected) = 0) =>
             /\ UNCHANGED <<splitVars, isProcessing>>
             /\ downloaded' = Null
        /\ (handleSplit /\ Len(splitSelected) > 0 /\ splitPDF # Null) =>
             /\ splitTask' = Some([loadedPDF |-> splitPDF[1],
                                   selectedPages |-> splitSelected])
             /\ isProcessing'
        /\ SplitDone =>
             LET sel == splitTask[1].selectedPages
                 out == downloaded'[1].pages
             IN  /\ {out[k].pageIndex + 1 : k \in 1..Len(out)}
                      = {sel[k] : k \in 1..Len(sel)}
                 /\ Len(out) = Cardinality({sel[k] : k \in 1..Len(sel)})
                 /\ \A k \in 1..(Len(out) - 1) :
                      out[k].pageIndex < out[k + 1].pageIndex]_vars

\* a split in flight of the pages 3 and 1, toggled in that order
C14_Witness ==
  /\ route = "split"
  /\ splitTask # Null
  /\ splitTask[1].selectedPages = <<3, 1>>
  /\ splitTask[1].loadedPDF.pages = 3

\* C15: whatever reorders, rotations and deletions were made, the page list
\* holds pairwise distinct source page indices, all of them pages of the
\* loaded document, and a save writes exactly the pages of the list it was
\* started on, in list order, each with the rotation the list tracks for it.
C15_SaveEmitsThePageList ==
  /\ [](/\ \A k \in 1..Len(pages) :
             /\ pages[k].pageIndex \in 0..(loadedPDF[1].arrayBuffer - 1)
             /\ pages[k].rotation \in Rotations
        /\ \A j, k \in 1..Len(pages) :
             pages[j].pageIndex = pages[k].pageIndex => j = k)
  /\ [][/\ handleSave => saveTask' = Some(loadedPDF[1])
        /\ EditSaveDone =>
             LET list == saveTask[1].pages
                 out == downloaded'[1].pages
             IN  /\ Len(out) = Len(list)
                 /\ \A k \in 1..Len(list) :
                      /\ out[k].pageIndex = list[k].pageIndex
                      /\ out[k].rotation = list[k].rotation]_vars

\* the output of a save after page 0 was deleted, page 1 turned left and
\* moved behind page 2
C15_Witness ==
  /\ route = "edit"
  /\ downloaded # Null
  /\ downloaded[1].pages = << [pageIndex |-> 2, rotation |-> 180],
                              [pageIndex |-> 1, rotation |-> 0] >>

\* the direction that is not d
Opposite(d) == IF d = "left" THEN "right" ELSE "left"

\* C16: rotatePages(direction) sets the rotation of exactly the pages at the
\* selected positions to (rotation + 90) mod 360 for right and to
\* (rotation - 90 + 360) mod 360 for left; the other pages, the page order
\* and the selection stay as they are. The new rotations are among 0, 90,
\* 180, 270; the opposite direction leads back to the old value, and so do
\* three more turns in the same direction. With nothing selected the call
\* changes nothing.
C16_RotateTurnsSelectedByQuarter ==
  [][\A d \in {"left", "right"} : rotatePages(d) =>
       /\ Len(pages') = Len(pages)
       /\ selectedPages' = selectedPages
       /\ \A k \in 1..Len(pages) :
            /\ pages'[k].id = pages[k].id
            /\ pages'[k].pageIndex = pages[k].pageIndex
            /\ (k - 1) \notin selectedPages => pages'[k].rotation = pages[k].rotation
            /\ (k - 1) \in selectedPages =>
                 LET old == pages[k].rotation
                     new == pages'[k].rotation
                 IN  /\ d = "right" => new = (old + 90) % 360
                     /\ d = "left" => new = (old - 90 + 360) % 360
                     /\ new \in {0, 90, 180, 270}
                     /\ new # old
                     /\ Rotate(new, Opposite(d)) = old
                     /\ Rotate(Rotate(Rotate(new, d), d), d) = old
       /\ selectedPages = {} => UNCHANGED <<editVars, isProcessing>>]_vars

\* pages 0 and 2 of a three-page document turned right twice, page 1 as loaded
C16_Witness ==
  /\ route = "edit"
  /\ Len(pages) = 3
  /\ selectedPages = {0, 2}
  /\ pages[1].rotation = 180
  /\ pages[2].rotation = 90
  /\ pages[3].rotation = 0
  /\ raised = "ReferenceError"

\* C17: all processing is local: nothing the application asks the network
\* for carries file content, no operation fetches a network resource, and
\* the only outbound action is handing a URL the user clicked to the system
\* browser.
C17_NothingLeavesTheDevice ==
  \A r \in requests :
    /\ r.content = "none"
    /\ r.by = "shell.openExternal"

\* C18: the quality reaches the saved output through one flag only:
\* useObjectStreams is true exactly when the quality Compress was clicked
\* with is not high, so that medium and low save the same document with the
\* same options and hand over the same output.
C18_QualityIsOneFlag ==
  [][CompressDone =>
       LET q == compressTask[1].quality
           out == downloaded'[1]
       IN  /\ out.options.useObjectStreams = (q # "high")
           /\ out.options.addDefaultPage = FALSE
           /\ q \in {"medium", "low"} =>
                out = [name |-> "compressed",
                       file |-> compressTask[1].loadedPDF.name,
                       options |-> [useObjectStreams |-> TRUE,
                                    addDefaultPage |-> FALSE]]
           /\ q = "high" => out.options.useObjectStreams = FALSE]_vars

\* a compression at medium quality has handed over its output, saved with
\* object streams
C18_Witness ==
  /\ route = "compress"
  /\ quality = "medium"
  /\ result # Null
  /\ downloaded # Null
  /\ downloaded[1].options.useObjectStreams

\* C19: deleteSelectedPages refuses to delete every page: called with as
\* many positions selected as there are pages it leaves the page list and
\* the selection as they are, and a loaded document never has zero pages.
C19_DeleteAllIsRejected ==
  /\ [](loadedPDF # Null => Len(pages) >= 1)
  /\ [][(deleteSelectedPages /\ Cardinality(selectedPages) >= Len(pages)) =>
          /\ loadedPDF' = loadedPDF
          /\ selectedPages' = selectedPages]_vars

\* a document loaded with three pages is down to one, and that one is selected
C19_Witness ==
  /\ route = "edit"
  /\ loadedPDF # Null
  /\ loadedPDF[1].arrayBuffer = 3
  /\ Len(pages) = 1
  /\ selectedPages = {0}

\* C20: a merge, a save or an images-to-PDF creation that fails is
\* recoverable: the failing step resets nothing, so the item list (EditPDF:
\* the loaded document and the selection) is what the user has made of it by
\* then, nothing is downloaded, isProcessing is false again and the button
\* that starts the operation is enabled whenever the list still allows it.
C20_FailureKeepsTheList ==
  [][/\ MergeFailed =>
          /\ files' = files
          /\ ~isProcessing'
          /\ downloaded' = Null
          /\ (Len(files) >= 2 => MergeButtonEnabled')
     /\ EditSaveFailed =>
          /\ loadedPDF' = loadedPDF
          /\ selectedPages' = selectedPages
          /\ ~isProcessing'
          /\ downloaded' = Null
          /\ (loadedPDF # Null => SaveButtonEnabled')
     /\ CreateFailed =>
          /\ images' = images
          /\ ~isProcessing'
          /\ downloaded' = Null
          /\ (Len(images) >= 1 => CreateButtonEnabled')]_vars

\* a save is in flight on a three-page document from which the user has
\* deleted a page since, and selected another
C20_Witness ==
  /\ route = "edit"
  /\ saveTask # Null
  /\ Len(saveTask[1].pages) = 3
  /\ Len(pages) = 2
  /\ selectedPages = {1}
  /\ isProcessing

\* the page of the list that carries the id
PageOf(list, id) == list[CHOOSE k \in 1..Len(list) : list[k].id = id]

\* C21: the attributes of a page travel with it: a drag reorder, movePageUp
\* or movePageDown changes positions only, so the list holds the same ids
\* and every page, found by its id, has the source page index and the
\* rotation it had before; togglePage, selectAll and deselectAll change
\* neither the page list nor any rotation.
C21_AttributesTravelWithThePage ==
  [][/\ (/\ pages' # pages
         /\ raised' = "none"
         /\ UNCHANGED <<saveTask, pendingLoads>>
         /\ EditReorderStep) =>
          /\ Len(pages') = Len(pages)
          /\ Ids(pages') = Ids(pages)
          /\ \A id \in Ids(pages) : PageOf(pages', id) = PageOf(pages, id)
     /\ (loadedPDF' # loadedPDF) =>
          ~(\/ \E pageIndex \in Positions : togglePage(pageIndex)
            \/ selectAll
            \/ deselectAll)]_vars

\* pages 0 and 1 turned right, then page 0 moved behind page 2: every page
\* still has its turned rotation
C21_Witness ==
  /\ route = "edit"
  /\ Len(pages) = 3
  /\ pages[1].pageIndex = 1 /\ pages[1].rotation = 180
  /\ pages[2].pageIndex = 2 /\ pages[2].rotation = 180
  /\ pages[3].pageIndex = 0 /\ pages[3].rotation = 90

\* C22: a merge that completes clears only what it merged: every file that
\* is on the list when the merge completes and was not on the list the
\* merge was started on is still on the list afterwards.
C22_MergeKeepsLaterFiles ==
  [][MergeDone =>
       \A k \in 1..Len(files) :
         files[k].id \notin Ids(mergeTask[1].files) =>
           \E j \in 1..Len(files') : files'[j] = files[k]]_vars

\* addTasks without its t-th call
OtherTasks(t) == SubSeq(addTasks, 1, t - 1) \o SubSeq(addTasks, t + 1, Len(addTasks))

\* C23: overlapping adds lose nothing: while two or more handleFilesAdded
\* calls are in flight, a file that one of them loads changes neither the
\* list nor what the others have loaded, and the call that completes puts
\* its loaded files, once each, contiguous and in input order, behind
\* everything that is on the list by then, and leaves the other calls with
\* all they have loaded.
C23_OverlappingAddsLoseNothing ==
  [][Len(addTasks) >= 2 =>
       \A t \in 1..Len(addTasks) :
         /\ (addTasks' # addTasks /\ MergeFileLoaded(t)) =>
              /\ files' = files
              /\ Len(addTasks') = Len(addTasks)
              /\ \A u \in 1..Len(addTasks) : u # t => addTasks'[u] = addTasks[u]
              /\ Len(addTasks'[t].processedFiles) >= Len(addTasks[t].processedFiles)
              /\ SubSeq(addTasks'[t].processedFiles, 1, Len(addTasks[t].processedFiles))
                   = addTasks[t].processedFiles
         /\ (addTasks' # addTasks /\ MergeFilesAppended(t)) =>
              /\ files' = files \o addTasks[t].processedFiles
              /\ Names(addTasks[t].processedFiles) = SelectSeq(addTasks[t].newFiles, Loads)
              /\ NoDuplicateIds(files')
              /\ addTasks' = OtherTasks(t)
              /\ \A u \in 1..Len(addTasks') :
                   Ids(addTasks'[u].processedFiles) \cap Ids(files') = {}]_vars

\* two adds through with their loops, their loads interleaved: the batch
\* b, a got the ids 1 and 3, the batch a the id 2
C23_Witness ==
  /\ route = "merge"
  /\ Len(addTasks) = 2
  /\ addTasks[1].newFiles = <<"b", "a">>
  /\ addTasks[1].done = 2
  /\ addTasks[1].processedFiles[1].id = 1
  /\ addTasks[1].processedFiles[2].id = 3
  /\ addTasks[2].done = 1
  /\ addTasks[2].processedFiles[1].id = 2

\* C25: in UnlockPDF the success state and an error message are never
\* present together: in every state reached by file loads, password edits,
\* unlock attempts and clears, not (success = true and error is non-null).
C25_SuccessExcludesError == route = "unlock" => ~(success /\ error # Null)

\* a password ProtectPDF accepts: non-empty, at least 4 characters, equal
\* to the confirmation
Validated(pw, confirm) == pw # <<>> /\ Len(pw) >= 4 /\ pw = confirm

\* C26: ProtectPDF encrypts only with a validated password. handleProtect
\* starts the encryption only with a document loaded and a password that is
\* non-empty, has at least 4 characters and equals confirmPassword, and the
\* file handed over is encrypted with such a password; a password that
\* differs from confirmPassword is reported as passwordMismatch whatever its
\* length, an equal but shorter one as passwordTooShort, and either
\* rejection leaves the document, both fields and isProcessing = FALSE.
C26_EncryptsOnlyValidated ==
  /\ [](/\ lockTask # Null /\ route = "protect" => Len(lockTask[1].password) >= 4
        /\ downloaded # Null /\ route = "protect" =>
             /\ Len(downloaded[1].userPassword) >= 4
             /\ downloaded[1].ownerPassword = downloaded[1].userPassword)
  /\ [][handleProtect =>
          /\ lockTask' # lockTask =>
               /\ protectPDF # Null
               /\ Validated(password, confirmPassword)
               /\ lockTask' = Some([loadedPDF |-> protectPDF[1], password |-> password])
          /\ (protectPDF # Null /\ password # <<>> /\ password # confirmPassword) =>
               /\ error' = Some("protect.passwordMismatch")
               /\ ~isProcessing'
               /\ UNCHANGED <<protectPDF, password, confirmPassword, lockTask>>
          /\ (protectPDF # Null /\ password # <<>> /\ password = confirmPassword
                /\ Len(password) < 4) =>
               /\ error' = Some("protect.passwordTooShort")
               /\ ~isProcessing'
               /\ UNCHANGED <<protectPDF, password, confirmPassword, lockTask>>]_vars

\* a short password that also differs from its confirmation has been
\* rejected as a mismatch, the document and both fields still in place
C26_Witness ==
  /\ route = "protect"
  /\ protectPDF # Null
  /\ password = <<"a", "b", "c">>
  /\ confirmPassword = <<"a", "b", "c", "d">>
  /\ error = Some("protect.passwordMismatch")
  /\ ~isProcessing

\* C24: every started processing run ends its busy state. Once handleMerge,
\* handleSave, handleSplit, handleCreate, handleCompress, handleProtect or
\* handleUnlock has set isProcessing, isProcessing becomes FALSE again,
\* whether the library calls of the run succeed or fail, given that each
\* awaited call settles.
C24_BusyEnds == isProcessing ~> ~isProcessing

\* a protection run that failed has ended: its error is shown and the page
\* is no longer busy
C24_Witness ==
  /\ route = "protect"
  /\ error = Some("protect.errorProtecting")
  /\ ~isProcessing
  /\ lockTask = Null

====
